---- MODULE Spec2Model ----
(***************************************************************************)
(* kctl: the RBAC risk classifier (internal/rbac/risk.go, config/risk.go)  *)
(* and the concurrent scan orchestrator (internal/console/commands/        *)
(* scan.go), modelled as state machines.                                   *)
(*                                                                         *)
(*   SpecRisk  the classifier applied to bounded permission lists          *)
(*   Spec      `set concurrency` and one `scan` command: filter, bounded   *)
(*             fan-out, collect, sortByRisk, saveResults, SaveBatch        *)
(***************************************************************************)
EXTENDS Integers, Sequences, FiniteSets, TLC

VARIABLES
    \* ---- classifier (SpecRisk) ----
    rpc,          \* "input" | "classified" | "off"
    permsA,       \* []types.PermissionCheck, list A
    permsB,       \* list B, whose allowed probes include those of A
    riskA,        \* CalculateRiskLevel(permsA)
    riskB,        \* CalculateRiskLevel(permsB)
    taskA,        \* the SATokenResult scanPodToken builds from the answers
                  \* of permsA to the static probes
    rowA,         \* buildFlags of that result: [noColor, list, text]
    recordA,      \* the record saveResults builds from that result
    \* ---- scan (Spec) ----
    concurrency,  \* sess.Config.Concurrency
    pods,         \* what kubelet.GetPodsWithContainers returns
    podCache,     \* sess.CachePods
    targetPods,   \* the filtered candidates
    mainPc,       \* position of ScanCmd.Execute
    wpc,          \* position of each worker goroutine
    semaphore,    \* number of slots taken in the semaphore channel
    semaphoreCap, \* cap(semaphore): sess.Config.Concurrency as line 132
                  \* read it, 0 before a scan has made the channel
    wg,           \* sync.WaitGroup counter
    results,      \* the buffered results channel
    closed,       \* the results channel is closed
    allResults,   \* the collected results, sorted once the scan is done
    repo,         \* service_accounts table: "ns/name" -> record
    savedCount,   \* value returned by saveResults
    saveErr,      \* SaveBatch returned an error
    savedTo,      \* what saveResults found in sess.SADB: "db" | "nil", and
                  \* "" before it ran
    scanned,      \* sess.MarkScanned
    \* ---- exec over WebSocket (SpecExec, SpecExecLive) ----
    xmode,        \* "exec" (Exec) | "interactive" (ExecInteractive) | "off"
    xstdinOpt,    \* opts.Stdin
    xpc,          \* position of the call: "dial" | "open" | "failed" | "returned"
    xpeer,        \* what the next ReadMessage meets: "open" or the way the
                  \* connection ended: "normal" | "goingaway" |
                  \* "abnormal" | "reset"
    xctx,         \* the context given to the call was cancelled
    xframes,      \* the messages ReadMessage has returned, in arrival order
    xresult,      \* types.ExecResult of readExecOutput
    xterm,        \* what ExecInteractive wrote to os.Stdout / os.Stderr
    xreader,      \* the frame reader goroutine: "none" | "read" | "exit"
    xfwd,         \* the stdin forwarder goroutine: "none" | "read" | "exit"
    xstdin,       \* os.Stdin: "open" | "eof" | "error"
    xsent,        \* number of stdin messages written to the connection
    \* ---- functions applied to bounded inputs (SpecPure) ----
    pfn,          \* the function applied, "off" when none
    pin,          \* its arguments
    pout,         \* what it returned
    ppc,          \* "input" | "done" | "off"
    \* ---- service_accounts repository (SpecDb) ----
    dbTable,      \* the service_accounts table: "ns/name" -> record
    dbWritten,    \* per key, the last record a committed batch wrote since
                  \* the last clear
    dbBefore,     \* the table before the last call
    dbLast,       \* the last call: [op, batch, err, saved, out, cut]
    dbCalls,      \* number of calls made
    dbInTx,       \* the connection is inside a transaction left open
    \* ---- session and its Kubelet client cache (SpecSession) ----
    sessConfig,   \* sess.Config: [KubeletIP, KubeletPort, ProxyURL, Token]
    sessClient,   \* the cached client: <<>> or <<the configuration it was built from>>
    sessLast,     \* the last command: [cmd, changed, hadClient, err, got]
    sessCalls,    \* number of commands run
    sessIsConnected, \* the session's "isConnected" flag
    \* ---- exec --all-pods (SpecAllPods) ----
    apArgs,       \* the parsed arguments: [namespace, filterPods, filterNs,
                  \* concurrency]
    apCache,      \* sess.GetCachedPods()
    apTargets,    \* targetPods
    apPc,         \* execAllPods: "start" | "spawn" (top of the loop) |
                  \* "send" (at the semaphore send) | "done" | "failed" |
                  \* "off"
    apWpc,        \* per target, its goroutine: "idle" (not started) |
                  \* "exec" | "return" | "released" | "done"
    apSemaphore,  \* number of tokens in the semaphore channel
    apWg,         \* the WaitGroup counter
    apResults,    \* the results slice
    apCounts      \* [successCount, failCount] once counted

riskVars == <<rpc, permsA, permsB, riskA, riskB, taskA, rowA, recordA>>
scanVars == <<concurrency, pods, podCache, targetPods, mainPc, wpc, semaphore,
              semaphoreCap,
              wg, results, closed, allResults, repo, savedCount, saveErr, savedTo,
              scanned>>
execVars == <<xmode, xstdinOpt, xpc, xpeer, xctx, xframes, xresult, xterm,
              xreader, xfwd, xstdin, xsent>>
\* the variables of the specifications other than SpecRisk and Spec
pureVars == <<pfn, pin, pout, ppc>>
dbVars == <<dbTable, dbWritten, dbBefore, dbLast, dbCalls, dbInTx>>
sessVars == <<sessConfig, sessClient, sessLast, sessCalls, sessIsConnected>>
allPodsVars == <<apArgs, apCache, apTargets, apPc, apWpc, apSemaphore, apWg,
                 apResults, apCounts>>
auxVars == <<execVars, pureVars, dbVars, sessVars, allPodsVars>>
vars == <<riskVars, scanVars, auxVars>>

---------------------------------------------------------------------------
(* Bounds *)

\* largest number of allowed probes in a classifier input
MaxAllowed == 2
\* largest number of pods the kubelet reports
MaxPods == 2
\* largest value given to `set concurrency`
MaxConcurrency == 2

---------------------------------------------------------------------------
(* config/risk.go *)

RiskAdmin == "ADMIN"
RiskCritical == "CRITICAL"
RiskHigh == "HIGH"
RiskMedium == "MEDIUM"
RiskLow == "LOW"
RiskNone == "NONE"

RiskLevels == {RiskAdmin, RiskCritical, RiskHigh, RiskMedium, RiskLow, RiskNone}

RiskLevelOrder ==
    (RiskAdmin :> 0) @@ (RiskCritical :> 1) @@ (RiskHigh :> 2) @@
    (RiskMedium :> 3) @@ (RiskLow :> 4) @@ (RiskNone :> 5)

CriticalPermissions ==
    ("*" :> <<"*">>) @@
    ("secrets" :> <<"get", "list", "watch", "create", "*">>) @@
    ("pods" :> <<"create", "*">>) @@
    ("pods/exec" :> <<"create", "*">>) @@
    ("clusterroles" :> <<"create", "update", "patch", "bind", "escalate", "*">>) @@
    ("clusterrolebindings" :> <<"create", "update", "patch", "*">>) @@
    ("roles" :> <<"create", "update", "patch", "bind", "escalate", "*">>) @@
    ("rolebindings" :> <<"create", "update", "patch", "*">>) @@
    ("serviceaccounts" :> <<"create", "impersonate", "*">>) @@
    ("nodes" :> <<"proxy", "*">>) @@
    ("nodes/proxy" :> <<"create", "get", "*">>)

HighPermissions ==
    ("configmaps" :> <<"get", "list", "create", "update", "*">>) @@
    ("deployments" :> <<"create", "update", "patch", "*">>) @@
    ("daemonsets" :> <<"create", "update", "patch", "*">>) @@
    ("cronjobs" :> <<"create", "update", "*">>) @@
    ("jobs" :> <<"create", "*">>) @@
    ("pods/log" :> <<"get", "*">>) @@
    ("persistentvolumeclaims" :> <<"create", "*">>) @@
    ("persistentvolumes" :> <<"create", "*">>) @@
    ("serviceaccounts/token" :> <<"create", "*">>)

MediumPermissions ==
    ("services" :> <<"create", "update", "*">>) @@
    ("endpoints" :> <<"create", "update", "*">>) @@
    ("ingresses" :> <<"create", "update", "*">>) @@
    ("networkpolicies" :> <<"create", "update", "delete", "*">>)

\* a variant of the table that misses the nodes/proxy entry
PrivilegeEquivalentPermissionsNoProxy ==
    ("pods/exec" :> <<"create", "*">>) @@
    ("pods/attach" :> <<"create", "*">>) @@
    ("*" :> <<"*">>) @@
    ("serviceaccounts/token" :> <<"create", "*">>)

PrivilegeEquivalentPermissions ==
    ("nodes/proxy" :> <<"get", "create", "*">>) @@
    ("pods/exec" :> <<"create", "*">>) @@
    ("pods/attach" :> <<"create", "*">>) @@
    ("*" :> <<"*">>) @@
    ("serviceaccounts/token" :> <<"create", "*">>) @@
    ("clusterroles" :> <<"bind", "escalate">>) @@
    ("roles" :> <<"bind", "escalate">>) @@
    ("clusterrolebindings" :> <<"create", "update">>) @@
    ("rolebindings" :> <<"create", "update">>)


\* `if verbs, ok := table[resource]; ok { for _, v := range verbs {
\*      if v == "*" || v == verb { return true } } }`
\* (the loop shared by the three tier checks of CalculateRiskLevel and the
\* Is...Permission helpers): the table's own "*" entry matches every verb.
VerbListed(table, resource, verb) ==
    /\ resource \in DOMAIN table
    /\ \E j \in 1..Len(table[resource]) :
          table[resource][j] = verb \/ table[resource][j] = "*"

IsPrivilegeEquivalent(resource, verb) ==
    VerbListed(PrivilegeEquivalentPermissions, resource, verb)

IsCriticalPermission(resource, verb) ==
    VerbListed(CriticalPermissions, resource, verb)

IsHighPermission(resource, verb) ==
    VerbListed(HighPermissions, resource, verb)

---------------------------------------------------------------------------
(* internal/rbac/risk.go *)

\* `resource := p.Resource; if p.Subresource != "" { resource = ... "/" ... }`
ResourceKey(p) ==
    IF p.Subresource # "" THEN p.Resource \o "/" \o p.Subresource
                          ELSE p.Resource

IsClusterAdmin(permissions) ==
    \E i \in 1..Len(permissions) :
        /\ permissions[i].Allowed
        /\ permissions[i].Resource = "*"
        /\ permissions[i].Verb = "*"

\* a classifier whose first pass does not look at the answer of the probe
CalculateRiskLevelAdminUnanswered(permissions) ==
    IF \E i \in 1..Len(permissions) :
          /\ permissions[i].Resource = "*"
          /\ permissions[i].Verb = "*"
    THEN RiskAdmin
    ELSE IF \E i \in 1..Len(permissions) :
               /\ permissions[i].Allowed
               /\ VerbListed(CriticalPermissions, ResourceKey(permissions[i]),
                             permissions[i].Verb)
         THEN RiskCritical
    ELSE IF \E i \in 1..Len(permissions) :
               /\ permissions[i].Allowed
               /\ VerbListed(HighPermissions, ResourceKey(permissions[i]),
                             permissions[i].Verb)
         THEN RiskHigh
    ELSE IF \E i \in 1..Len(permissions) :
               /\ permissions[i].Allowed
               /\ VerbListed(MediumPermissions, ResourceKey(permissions[i]),
                             permissions[i].Verb)
         THEN RiskMedium
    ELSE IF \E i \in 1..Len(permissions) : permissions[i].Allowed THEN RiskLow
    ELSE RiskNone

\* a classifier that lets a HIGH finding mask a CRITICAL one
CalculateRiskLevelHighFirst(permissions) ==
    IF IsClusterAdmin(permissions) THEN RiskAdmin
    ELSE IF \E i \in 1..Len(permissions) :
               /\ permissions[i].Allowed
               /\ VerbListed(HighPermissions, ResourceKey(permissions[i]),
                             permissions[i].Verb)
         THEN RiskHigh
    ELSE IF \E i \in 1..Len(permissions) :
               /\ permissions[i].Allowed
               /\ \/ VerbListed(CriticalPermissions, ResourceKey(permissions[i]),
                                permissions[i].Verb)
                  \/ permissions[i].Resource = "*"
         THEN RiskCritical
    ELSE IF \E i \in 1..Len(permissions) : permissions[i].Allowed THEN RiskLow
    ELSE RiskNone

\* the five passes of CalculateRiskLevel, in order
CalculateRiskLevel(permissions) ==
    IF \E i \in 1..Len(permissions) :
          /\ permissions[i].Allowed
          /\ permissions[i].Resource = "*"
          /\ permissions[i].Verb = "*"
    THEN RiskAdmin
    ELSE IF \E i \in 1..Len(permissions) :
               /\ permissions[i].Allowed
               /\ \/ VerbListed(CriticalPermissions, ResourceKey(permissions[i]),
                                permissions[i].Verb)
                  \/ permissions[i].Resource = "*"
         THEN RiskCritical
    ELSE IF \E i \in 1..Len(permissions) :
               /\ permissions[i].Allowed
               /\ VerbListed(HighPermissions, ResourceKey(permissions[i]),
                             permissions[i].Verb)
         THEN RiskHigh
    ELSE IF \E i \in 1..Len(permissions) :
               /\ permissions[i].Allowed
               /\ VerbListed(MediumPermissions, ResourceKey(permissions[i]),
                             permissions[i].Verb)
         THEN RiskMedium
    ELSE IF \E i \in 1..Len(permissions) : permissions[i].Allowed
         THEN RiskLow
    ELSE RiskNone

---------------------------------------------------------------------------
(* pkg/types: PermissionCheck, TokenInfo; the probe set *)

Probe(resource, verb, group, subresource) ==
    [Resource |-> resource, Verb |-> verb, Group |-> group,
     Subresource |-> subresource]

PermissionCheck(req, allowed) ==
    [Resource |-> req.Resource, Verb |-> req.Verb, Group |-> req.Group,
     Subresource |-> req.Subresource, Allowed |-> allowed]

\* config.PermissionsToCheck: the static probe set
PermissionsToCheck ==
    << Probe("pods", "create", "", "exec"),
       Probe("pods", "create", "", "attach"),
       Probe("pods", "get", "", "log"),
       Probe("pods", "get", "", ""),
       Probe("pods", "list", "", ""),
       Probe("pods", "create", "", ""),
       Probe("pods", "delete", "", ""),
       Probe("secrets", "get", "", ""),
       Probe("secrets", "list", "", ""),
       Probe("secrets", "create", "", ""),
       Probe("secrets", "delete", "", ""),
       Probe("configmaps", "get", "", ""),
       Probe("configmaps", "list", "", ""),
       Probe("nodes", "get", "", "proxy"),
       Probe("nodes", "create", "", "proxy"),
       Probe("nodes", "list", "", ""),
       Probe("serviceaccounts", "create", "", "token"),
       Probe("clusterroles", "get", "", ""),
       Probe("clusterroles", "list", "", ""),
       Probe("clusterroles", "create", "", ""),
       Probe("clusterroles", "bind", "", ""),
       Probe("clusterroles", "escalate", "", ""),
       Probe("clusterrolebindings", "create", "", ""),
       Probe("clusterrolebindings", "list", "", ""),
       Probe("roles", "create", "", ""),
       Probe("roles", "bind", "", ""),
       Probe("roles", "escalate", "", ""),
       Probe("rolebindings", "create", "", ""),
       Probe("deployments", "create", "apps", ""),
       Probe("daemonsets", "create", "apps", ""),
       Probe("jobs", "create", "batch", ""),
       Probe("*", "*", "", "") >>

\* probes outside the static set.  CalculateRiskLevel takes any permission
\* list, and it is classified on lists that carry these too; a scan never
\* sends them, and no scan task carries them (ScanPermissions).
ExtraProbes ==
    << Probe("services", "get", "", ""),
       Probe("services", "create", "", ""),
       Probe("*", "get", "", ""),
       Probe("events", "list", "", ""),
       Probe("pods", "get", "", "exec") >>

RiskProbes == PermissionsToCheck \o ExtraProbes

\* the permission list over RiskProbes whose allowed entries are those in A
PermList(A) ==
    [i \in 1..Len(RiskProbes) |-> PermissionCheck(RiskProbes[i], i \in A)]

\* CheckCommonPermissions: a scan task carries one answer per probe of the
\* static set and nothing else, so of a list over RiskProbes it carries
\* the part over PermissionsToCheck
ScanPermissions(permissions) ==
    SubSeq(permissions, 1, Len(PermissionsToCheck))

AllowedOf(permissions) ==
    {Probe(permissions[i].Resource, permissions[i].Verb, permissions[i].Group,
           permissions[i].Subresource) :
        i \in {j \in 1..Len(permissions) : permissions[j].Allowed}}

---------------------------------------------------------------------------
(* pkg/token: Parse *)

\* A token as the parser sees it.
\*   empty    the string is ""
\*   nparts   number of "."-separated parts
\*   enc      which base64 decoder accepts part [1]: "rawurl", "std" or "bad"
\*   isJson   the decoded payload is a JSON object
\*   k8s      the "kubernetes.io" claim: <<>> if absent, else a one-element
\*            sequence holding [namespace, name], each <<>> or <<string>>
\*   sub      the "sub" claim split at ":" (<<>> if absent)
Jwt(nparts, enc, isJson, k8s, sub) ==
    [empty |-> FALSE, nparts |-> nparts, enc |-> enc, isJson |-> isJson,
     k8s |-> k8s, sub |-> sub]

EmptyToken ==
    [empty |-> TRUE, nparts |-> 1, enc |-> "bad", isJson |-> FALSE,
     k8s |-> <<>>, sub |-> <<>>]

TokenInfo(serviceAccount, namespace) ==
    [ServiceAccount |-> serviceAccount, Namespace |-> namespace]

\* a variant in which a well-formed sub claim always decides
ParseSubFirst(token) ==
    IF token.nparts # 3 \/ token.enc = "bad" \/ ~token.isJson
    THEN [err |-> TRUE, info |-> TokenInfo("", "")]
    ELSE
      LET ns1 == IF Len(token.k8s) = 1 /\ Len(token.k8s[1].namespace) = 1
                 THEN token.k8s[1].namespace[1] ELSE ""
          sa1 == IF Len(token.k8s) = 1 /\ Len(token.k8s[1].name) = 1
                 THEN token.k8s[1].name[1] ELSE ""
          useSub == /\ Len(token.sub) >= 4
                    /\ token.sub[1] = "system"
                    /\ token.sub[2] = "serviceaccount"
      IN [err |-> FALSE,
          info |-> IF useSub THEN TokenInfo(token.sub[4], token.sub[3])
                             ELSE TokenInfo(sa1, ns1)]

Parse(token) ==
    IF token.nparts # 3
    THEN [err |-> TRUE, info |-> TokenInfo("", "")]
    ELSE IF token.enc = "bad"
    THEN [err |-> TRUE, info |-> TokenInfo("", "")]
    ELSE IF ~token.isJson
    THEN [err |-> TRUE, info |-> TokenInfo("", "")]
    ELSE
      LET ns1 == IF Len(token.k8s) = 1 /\ Len(token.k8s[1].namespace) = 1
                 THEN token.k8s[1].namespace[1] ELSE ""
          sa1 == IF Len(token.k8s) = 1 /\ Len(token.k8s[1].name) = 1
                 THEN token.k8s[1].name[1] ELSE ""
          useSub == /\ sa1 = ""
                    /\ Len(token.sub) >= 4
                    /\ token.sub[1] = "system"
                    /\ token.sub[2] = "serviceaccount"
      IN [err |-> FALSE,
          info |-> IF useSub THEN TokenInfo(token.sub[4], token.sub[3])
                             ELSE TokenInfo(sa1, ns1)]

---------------------------------------------------------------------------
(* internal/client: CheckPermission, CheckPermissions, CheckCommonPermissions *)

\* What one SelfSubjectAccessReview request comes back with:
\*   neterr    httpClient.Do failed
\*   code      the HTTP status of the response
\*   json      the body decodes as a SelfSubjectAccessReviewResponse
\*   allowed   status.allowed of the decoded body
HttpResponse(neterr, code, json, allowed) ==
    [neterr |-> neterr, code |-> code, json |-> json, allowed |-> allowed]

RespAllowed == HttpResponse(FALSE, 201, TRUE, TRUE)
RespAllowedOK == HttpResponse(FALSE, 200, TRUE, TRUE)
RespDenied == HttpResponse(FALSE, 201, TRUE, FALSE)
RespNetErr == HttpResponse(TRUE, 0, FALSE, FALSE)
\* a 403 whose body nevertheless says allowed
RespForbidden == HttpResponse(FALSE, 403, TRUE, TRUE)
RespBadJson == HttpResponse(FALSE, 200, FALSE, FALSE)

Responses ==
    {RespAllowed, RespAllowedOK, RespDenied, RespNetErr, RespForbidden,
     RespBadJson}

\* a variant that does not look at the HTTP status
CheckPermissionAnyStatus(resp) ==
    IF resp.neterr \/ ~resp.json
    THEN [allowed |-> FALSE, err |-> TRUE]
    ELSE [allowed |-> resp.allowed, err |-> FALSE]

CheckPermission(resp) ==
    IF resp.neterr THEN [allowed |-> FALSE, err |-> TRUE]
    ELSE IF resp.code # 201 /\ resp.code # 200
    THEN [allowed |-> FALSE, err |-> TRUE]
    ELSE IF ~resp.json THEN [allowed |-> FALSE, err |-> TRUE]
    ELSE [allowed |-> resp.allowed, err |-> FALSE]

CheckPermissions(reqs, resps) ==
    [i \in 1..Len(reqs) |->
        LET r == CheckPermission(resps[i])
        IN PermissionCheck(reqs[i], IF r.err THEN FALSE ELSE r.allowed)]

CheckCommonPermissions(resps) == CheckPermissions(PermissionsToCheck, resps)

---------------------------------------------------------------------------
(* internal/console/commands/scan.go: one per-pod task *)

SecurityFlags(privileged, allowPE, hostPath, secretMount, saTokenMount) ==
    [Privileged |-> privileged, AllowPrivilegeEscalation |-> allowPE,
     HasHostPath |-> hostPath, HasSecretMount |-> secretMount,
     HasSATokenMount |-> saTokenMount]

\* types.PodContainerInfo, the fields the scan reads
PodContainerInfo(namespace, podName, status, containers, flags) ==
    [Namespace |-> namespace, PodName |-> podName, Status |-> status,
     Containers |-> containers, SecurityFlags |-> flags]

\* types.ExecResult plus the Go error of kubelet.Exec
ExecOutcome(dialErr, error, stdout) ==
    [dialErr |-> dialErr, Error |-> error, Stdout |-> stdout]

\* strings.TrimSpace(execResult.Stdout): Stdout is [body, newline], the
\* token text and whether `cat` output ends in white space
TrimSpace(stdout) == stdout.body

\* scanPodToken lines 227-232
NewResult(pod) ==
    [Namespace |-> pod.Namespace, PodName |-> pod.PodName, Container |-> "",
     ServiceAccount |-> "", Token |-> EmptyToken, TokenInfo |-> <<>>,
     Permissions |-> <<>>, SecurityFlags |-> pod.SecurityFlags,
     RiskLevel |-> RiskNone, IsClusterAdmin |-> FALSE, Error |-> ""]

\* scanPodToken lines 291-301
Classified(result, permissions) ==
    LET admin == IsClusterAdmin(permissions)
    IN [result EXCEPT !.Permissions = permissions,
                      !.IsClusterAdmin = admin,
                      !.RiskLevel = IF admin THEN RiskAdmin
                                    ELSE CalculateRiskLevel(permissions)]

\* a variant in which a failed access review fails the task
scanPodTokenReviewErrorFails(pod, exec, clientErr, resps) ==
    LET r0 == NewResult(pod)
    IN IF Len(pod.Containers) = 0
       THEN [r0 EXCEPT !.Error = "pod has no containers"]
       ELSE
       LET r1 == [r0 EXCEPT !.Container = pod.Containers[1]]
       IN IF exec.dialErr
          THEN [r1 EXCEPT !.Error = "exec failed"]
          ELSE IF exec.Error # ""
          THEN [r1 EXCEPT !.Error = "read token failed: " \o exec.Error]
          ELSE
          LET r2 == [r1 EXCEPT !.Token = TrimSpace(exec.Stdout)]
          IN IF r2.Token.empty
             THEN [r2 EXCEPT !.Error = "token is empty"]
             ELSE
             LET parsed == Parse(r2.Token)
             IN IF parsed.err
                THEN [r2 EXCEPT !.Error = "parse token failed"]
                ELSE
                LET r3 == [r2 EXCEPT
                              !.TokenInfo = <<parsed.info>>,
                              !.ServiceAccount = parsed.info.ServiceAccount]
                IN IF clientErr
                   THEN [r3 EXCEPT !.Error = "create k8s client failed"]
                   ELSE IF \E i \in 1..Len(resps) :
                              CheckPermission(resps[i]).err
                   THEN [r3 EXCEPT !.Error = "check permissions failed"]
                   ELSE Classified(r3, CheckCommonPermissions(resps))

\* scanPodToken: `exec` is what kubelet.Exec answers for this pod,
\* `clientErr` whether sess.GetK8sClient fails for the token, and `resps`
\* what the API server answers to the probes of the token
scanPodToken(pod, exec, clientErr, resps) ==
    LET r0 == NewResult(pod)
    IN IF Len(pod.Containers) = 0
       THEN [r0 EXCEPT !.Error = "pod has no containers"]
       ELSE
       LET r1 == [r0 EXCEPT !.Container = pod.Containers[1]]
       IN IF exec.dialErr
          THEN [r1 EXCEPT !.Error = "exec failed"]
          ELSE IF exec.Error # ""
          THEN [r1 EXCEPT !.Error = "read token failed: " \o exec.Error]
          ELSE
          LET r2 == [r1 EXCEPT !.Token = TrimSpace(exec.Stdout)]
          IN IF r2.Token.empty
             THEN [r2 EXCEPT !.Error = "token is empty"]
             ELSE
             LET parsed == Parse(r2.Token)
             IN IF parsed.err
                THEN [r2 EXCEPT !.Error = "parse token failed"]
                ELSE
                LET r3 == [r2 EXCEPT
                              !.TokenInfo = <<parsed.info>>,
                              !.ServiceAccount = parsed.info.ServiceAccount]
                IN IF clientErr
                   THEN [r3 EXCEPT !.Error = "create k8s client failed"]
                   ELSE Classified(r3, CheckCommonPermissions(resps))

\* NewPrinter: the colours of the printer, each as the SGR parameter of
\* its color.Color
PrinterColors ==
    [red |-> "31", green |-> "32", yellow |-> "33", blue |-> "34",
     magenta |-> "35", cyan |-> "36", white |-> "37", gray |-> "90"]

\* printer.getColor: the colour of that name, white for an unknown name
getColor(name) ==
    IF name \in DOMAIN PrinterColors THEN PrinterColors[name]
    ELSE PrinterColors["white"]

\* printer.Colored: color.Sprint gives the text as it is when colours are
\* off (color.NoColor: the output is not a terminal), else the text between
\* the escape sequence of the colour and the reset sequence.  A string is
\* the sequence of its pieces.
Colored(noColor, colorName, text) ==
    IF noColor THEN <<text>>
    ELSE <<"\\x1b[" \o getColor(colorName) \o "m", text, "\\x1b[0m">>

\* containsFlag: strings.Contains(f, flag) for some element f, each element
\* being cut around `flag`
containsFlag(flags, flag) ==
    \E k \in 1..Len(flags) : \E c \in 1..Len(flags[k]) : flags[k][c] = flag

\* a variant of the loop that does not look at the answer of the probe
PermissionIsPrivilegedAnyAnswer(permissions) ==
    \E i \in 1..Len(permissions) :
        IsPrivilegeEquivalent(ResourceKey(permissions[i]), permissions[i].Verb)

\* the permission loop of buildFlags (lines 453-467)
PermissionIsPrivileged(permissions) ==
    \E i \in 1..Len(permissions) :
        /\ permissions[i].Allowed
        /\ IsPrivilegeEquivalent(ResourceKey(permissions[i]), permissions[i].Verb)

\* buildFlags, before the final strings.Join: the flags slice
buildFlagList(noColor, result) ==
    LET f1 == IF result.SecurityFlags.Privileged
              THEN <<Colored(noColor, "red", "PRIV")>> ELSE <<>>
        f2 == IF result.SecurityFlags.AllowPrivilegeEscalation
              THEN Append(f1, Colored(noColor, "yellow", "PE")) ELSE f1
        f3 == IF result.SecurityFlags.HasHostPath
              THEN Append(f2, Colored(noColor, "red", "HP")) ELSE f2
        f4 == IF result.SecurityFlags.HasSecretMount
              THEN Append(f3, Colored(noColor, "yellow", "SEC")) ELSE f3
    IN IF PermissionIsPrivileged(result.Permissions) /\ ~containsFlag(f4, "PRIV")
       THEN Append(f4, Colored(noColor, "red", "PRIV")) ELSE f4

RECURSIVE Join(_, _)
Join(strs, sep) ==
    IF Len(strs) = 0 THEN ""
    ELSE IF Len(strs) = 1 THEN strs[1]
    ELSE strs[1] \o sep \o Join(Tail(strs), sep)

\* the string made of the pieces
RECURSIVE Concat(_)
Concat(pieces) ==
    IF Len(pieces) = 0 THEN "" ELSE pieces[1] \o Concat(Tail(pieces))

\* buildFlags: "-" when no flag is set, else the flags joined by ","
buildFlags(noColor, result) ==
    IF Len(buildFlagList(noColor, result)) = 0 THEN "-"
    ELSE Join([k \in 1..Len(buildFlagList(noColor, result)) |->
                  Concat(buildFlagList(noColor, result)[k])], ",")

---------------------------------------------------------------------------
(* scan.go: sortByRisk and saveResults; db: SaveBatch *)

\* the comparator handed to sort.Slice
Less(a, b) ==
    IF a.IsClusterAdmin # b.IsClusterAdmin THEN a.IsClusterAdmin
    ELSE RiskLevelOrder[a.RiskLevel] < RiskLevelOrder[b.RiskLevel]

IndexOrders(n) ==
    {f \in [1..n -> 1..n] : \A i, j \in 1..n : f[i] = f[j] => i = j}

\* a sort that leaves the slice as it was collected
sortByRiskNoop(rs) == {rs}

\* sort.Slice is not a stable sort: every ordering of the slice that the
\* comparator accepts as sorted is a possible outcome
sortByRisk(rs) ==
    {[i \in 1..Len(rs) |-> rs[f[i]]] :
        f \in {g \in IndexOrders(Len(rs)) :
                 \A i, j \in 1..Len(rs) : i < j => ~Less(rs[g[j]], rs[g[i]])}}

SAPodInfo(result) ==
    [Name |-> result.PodName, Namespace |-> result.Namespace,
     Container |-> result.Container]

\* json.Marshal of a slice: a nil slice encodes as null, not as []
JsonArray(items) == [null |-> Len(items) = 0, items |-> items]

\* json.Unmarshal of such an encoding into a slice
JsonItems(json) == IF json.null THEN <<>> ELSE json.items

\* the allowed entries, in order (saveResults lines 358-369)
AllowedPermissions(permissions) ==
    SelectSeq(permissions, LAMBDA q : q.Allowed)

\* fmt.Sprintf("%s/%s", namespace, name)
SAKey(namespace, name) == namespace \o "/" \o name

\* saveResults lines 338-389: the record of the first result of an SA
NewRecord(result) ==
    [Name |-> result.ServiceAccount,
     Namespace |-> result.TokenInfo[1].Namespace,
     Token |-> result.Token,
     IsClusterAdmin |-> result.IsClusterAdmin,
     RiskLevel |-> IF result.IsClusterAdmin THEN RiskAdmin ELSE result.RiskLevel,
     Permissions |-> JsonArray(AllowedPermissions(result.Permissions)),
     SecurityFlags |-> result.SecurityFlags,
     Pods |-> JsonArray(<<SAPodInfo(result)>>)]

\* saveResults lines 325-336: a later result of the same SA
AppendPod(existing, result) ==
    [existing EXCEPT
        !.Pods = JsonArray(Append(JsonItems(existing.Pods), SAPodInfo(result)))]

\* a merge that does not skip failed tasks
RECURSIVE BuildSAMapKeepFailed(_, _)
BuildSAMapKeepFailed(rs, saMap) ==
    IF rs = <<>> THEN saMap
    ELSE LET result == Head(rs)
             info == IF result.TokenInfo = <<>> THEN TokenInfo("", "")
                     ELSE result.TokenInfo[1]
             key == SAKey(info.Namespace, result.ServiceAccount)
             full == [result EXCEPT !.TokenInfo = <<info>>]
         IN BuildSAMapKeepFailed(Tail(rs),
                IF key \in DOMAIN saMap
                THEN [saMap EXCEPT ![key] = AppendPod(saMap[key], full)]
                ELSE (key :> NewRecord(full)) @@ saMap)

\* the loop of saveResults (lines 316-393) over the sorted results
RECURSIVE BuildSAMap(_, _)
BuildSAMap(rs, saMap) ==
    IF rs = <<>> THEN saMap
    ELSE LET result == Head(rs)
         IN IF result.Error # "" \/ result.ServiceAccount = ""
            THEN BuildSAMap(Tail(rs), saMap)
            ELSE LET key == SAKey(result.TokenInfo[1].Namespace, result.ServiceAccount)
                 IN BuildSAMap(Tail(rs),
                        IF key \in DOMAIN saMap
                        THEN [saMap EXCEPT ![key] = AppendPod(saMap[key], result)]
                        ELSE (key :> NewRecord(result)) @@ saMap)

EmptyMap == [k \in {} |-> k]

\* How a SaveBatch call goes: "ok", or the step that fails ("begin",
\* "prepare", "exec" of the k-th record, the commit).  A failed COMMIT has
\* two outcomes: the engine has ended the transaction by itself ("commit":
\* disk full, I/O error), or the transaction stays open on the connection
\* ("commitBusy": SQLITE_BUSY).
DbFault(kind, k) == [kind |-> kind, k |-> k]

DbFaults(n) ==
    {DbFault(kind, 0) :
        kind \in {"ok", "begin", "prepare", "commit", "commitBusy"}}
        \cup {DbFault("exec", k) : k \in 1..n}

\* INSERT OR REPLACE of one record under UNIQUE(name, namespace)
Upsert(table, record) ==
    (SAKey(record.Namespace, record.Name) :> record) @@ table

RECURSIVE UpsertAll(_, _)
UpsertAll(table, records) ==
    IF records = <<>> THEN table
    ELSE UpsertAll(Upsert(table, Head(records)), Tail(records))

\* SaveBatch: the table as the repository's connection sees it, the count
\* and the error it returns, and whether the connection is left inside the
\* transaction.  A return before Commit is called runs the deferred
\* Rollback (line 47).  Once Commit was called the Tx is done: the deferred
\* Rollback answers ErrTxDone and sends nothing, so after a failed COMMIT
\* that left the transaction open the rows of the batch stay in it.
SaveBatch(table, records, fault) ==
    IF fault.kind \in {"begin", "prepare"}
    THEN [table |-> table, saved |-> 0, err |-> TRUE, open |-> FALSE]
    ELSE IF fault.kind = "exec"
    THEN [table |-> table, saved |-> fault.k - 1, err |-> TRUE,
          open |-> FALSE]
    ELSE IF fault.kind = "commit"
    THEN [table |-> table, saved |-> Len(records), err |-> TRUE,
          open |-> FALSE]
    ELSE IF fault.kind = "commitBusy"
    THEN [table |-> UpsertAll(table, records), saved |-> Len(records),
          err |-> TRUE, open |-> TRUE]
    ELSE [table |-> UpsertAll(table, records), saved |-> Len(records),
          err |-> FALSE, open |-> FALSE]

\* `for _, record := range saMap`: the records in one of the orders the
\* map iteration can produce
RecordOrders(saMap) ==
    LET keys == DOMAIN saMap
        n == Cardinality(keys)
    IN {[i \in 1..n |-> saMap[ks[i]]] :
          ks \in {s \in [1..n -> keys] : \A i, j \in 1..n : s[i] = s[j] => i = j}}

---------------------------------------------------------------------------
(* Inputs *)

DefaultScanConcurrency == 3

PodNames == <<"a", "b", "c", "d", "e">>

\* status, containers and security flags a reported pod can have
PodProfiles ==
    << [Status |-> "Running", Containers |-> <<"c0">>,
        SecurityFlags |-> SecurityFlags(FALSE, FALSE, FALSE, FALSE, TRUE)],
       [Status |-> "Running", Containers |-> <<"c0", "c1">>,
        SecurityFlags |-> SecurityFlags(TRUE, FALSE, TRUE, FALSE, TRUE)],
       [Status |-> "Running", Containers |-> <<>>,
        SecurityFlags |-> SecurityFlags(FALSE, FALSE, FALSE, FALSE, TRUE)],
       [Status |-> "Pending", Containers |-> <<"c0">>,
        SecurityFlags |-> SecurityFlags(FALSE, FALSE, FALSE, FALSE, TRUE)],
       [Status |-> "Running", Containers |-> <<"c0">>,
        SecurityFlags |-> SecurityFlags(FALSE, TRUE, FALSE, TRUE, FALSE)] >>

\* The pod lists of up to MaxPods pods, all in namespace default.  The
\* position of a pod in the kubelet's list only decides its index among the
\* workers, which run in any order, so the lists are taken up to reordering:
\* profiles appear in the order of PodProfiles.
PodLists ==
    UNION { { [i \in 1..n |->
                 PodContainerInfo("default", PodNames[i],
                                  PodProfiles[prof[i]].Status,
                                  PodProfiles[prof[i]].Containers,
                                  PodProfiles[prof[i]].SecurityFlags)] :
              prof \in {f \in [1..n -> 1..Len(PodProfiles)] :
                          \A i, j \in 1..n : i < j => f[i] <= f[j]} } :
            n \in 0..MaxPods }

\* tokens a container can hold
JwtShared ==
    Jwt(3, "rawurl", TRUE,
        <<[namespace |-> <<"default">>, name |-> <<"shared">>]>>,
        <<"system", "serviceaccount", "default", "shared">>)
JwtOther ==
    Jwt(3, "std", TRUE, <<>>,
        <<"system", "serviceaccount", "kube-system", "other">>)
JwtNoSA == Jwt(3, "rawurl", TRUE, <<>>, <<>>)
JwtBad == Jwt(2, "rawurl", TRUE, <<>>, <<>>)

Stdout(body) == [body |-> body, newline |-> TRUE]

\* the API server's answers when exactly the probes in `granted` are allowed
Answers(granted) ==
    [i \in 1..Len(PermissionsToCheck) |->
        IF PermissionsToCheck[i] \in granted THEN RespAllowed ELSE RespDenied]

\* the API server cannot be reached
Unreachable == [i \in 1..Len(PermissionsToCheck) |-> RespNetErr]

GrantNone == {}
GrantLow == {Probe("pods", "create", "", "attach")}
GrantProxy == {Probe("nodes", "get", "", "proxy")}
GrantAdmin == {Probe("*", "*", "", ""), Probe("pods", "list", "", "")}

Task(exec, clientErr, resps) ==
    [exec |-> exec, clientErr |-> clientErr, resps |-> resps]

\* what a per-pod task can meet: the exec outcome, whether the client for
\* the token can be made, and the review answers.  Every way the task can
\* end is there: the exec dial error, the exec error status, the empty
\* token, the token that does not parse, the client that cannot be made,
\* and tokens of default/shared at three tiers, of kube-system/other and of
\* no service account.
TaskOutcomes ==
    { Task(ExecOutcome(TRUE, "", Stdout(EmptyToken)), FALSE, Unreachable),
      Task(ExecOutcome(FALSE, "container not found", Stdout(EmptyToken)),
           FALSE, Unreachable),
      Task(ExecOutcome(FALSE, "", Stdout(EmptyToken)), FALSE, Unreachable),
      Task(ExecOutcome(FALSE, "", Stdout(JwtBad)), FALSE, Unreachable),
      Task(ExecOutcome(FALSE, "", Stdout(JwtNoSA)), FALSE, Answers(GrantLow)),
      Task(ExecOutcome(FALSE, "", Stdout(JwtOther)), FALSE, Answers(GrantProxy)),
      Task(ExecOutcome(FALSE, "", Stdout(JwtShared)), TRUE, Answers(GrantAdmin)) }
    \cup
    { Task(ExecOutcome(FALSE, "", Stdout(JwtShared)), FALSE, resps) :
        resps \in {Unreachable, Answers(GrantNone), Answers(GrantProxy),
                   Answers(GrantAdmin)} }

\* the index sets of at most MaxAllowed probes of RiskProbes
RECURSIVE SetsUpTo(_)
SetsUpTo(k) ==
    IF k = 0 THEN {{}}
    ELSE SetsUpTo(k - 1) \cup
         {A \cup {i} : A \in SetsUpTo(k - 1), i \in 1..Len(RiskProbes)}

AllowedSets == SetsUpTo(MaxAllowed)

\* the pod the classifier specification runs its task in
RiskPod ==
    PodContainerInfo("default", "a", "Running", <<"c0">>,
                     SecurityFlags(FALSE, FALSE, FALSE, FALSE, TRUE))

\* that task once its token is parsed (scanPodToken line 277)
RiskTask ==
    [NewResult(RiskPod) EXCEPT !.Container = "c0",
                               !.Token = JwtShared,
                               !.TokenInfo = <<Parse(JwtShared).info>>,
                               !.ServiceAccount = Parse(JwtShared).info.ServiceAccount]

\* the same task in a privileged container (SecurityFlags.Privileged)
RiskTaskPrivileged ==
    [RiskTask EXCEPT !.SecurityFlags.Privileged = TRUE]

\* the tasks the classifier specification starts from
RiskTasks == {RiskTask, RiskTaskPrivileged}

---------------------------------------------------------------------------
(* SpecRisk: the classifier on bounded permission lists *)

\* types.ExecResult{}
EmptyExecResult == [Stdout |-> <<>>, Stderr |-> <<>>, Error |-> <<>>]

ExecOff ==
    /\ xmode = "off"
    /\ xstdinOpt = FALSE
    /\ xpc = "off"
    /\ xpeer = "open"
    /\ xctx = FALSE
    /\ xframes = <<>>
    /\ xresult = EmptyExecResult
    /\ xterm = <<>>
    /\ xreader = "none"
    /\ xfwd = "none"
    /\ xstdin = "open"
    /\ xsent = 0

PureOff ==
    /\ pfn = "off"
    /\ pin = <<>>
    /\ pout = <<>>
    /\ ppc = "off"

\* no call made: [op, batch, err, saved, out, cut]; getAll keeps the batch
\* of the call before it, and `cut` tells that its row iteration ended early
NoDbCall == [op |-> "none", batch |-> <<>>, err |-> FALSE, saved |-> 0,
             out |-> <<>>, cut |-> FALSE]

DbOff ==
    /\ dbTable = EmptyMap
    /\ dbWritten = EmptyMap
    /\ dbBefore = EmptyMap
    /\ dbLast = NoDbCall
    /\ dbCalls = 0
    /\ dbInTx = FALSE

\* no command run: [cmd, changed, hadClient, err, got]
NoSessCommand == [cmd |-> "none", changed |-> FALSE, hadClient |-> FALSE,
                  err |-> FALSE, got |-> <<>>]

SessOff ==
    /\ sessConfig = <<>>
    /\ sessClient = <<>>
    /\ sessLast = NoSessCommand
    /\ sessCalls = 0
    /\ sessIsConnected = FALSE

\* no counting done yet
NoCounts == [successCount |-> 0, failCount |-> 0]

AllPodsOff ==
    /\ apArgs = [namespace |-> "", filterPods |-> <<>>, filterNs |-> <<>>,
                 concurrency |-> 0]
    /\ apCache = <<>>
    /\ apTargets = <<>>
    /\ apPc = "off"
    /\ apWpc = <<>>
    /\ apSemaphore = 0
    /\ apWg = 0
    /\ apResults = <<>>
    /\ apCounts = NoCounts

AuxOff == ExecOff /\ PureOff /\ DbOff /\ SessOff /\ AllPodsOff

ScanOff ==
    /\ concurrency = DefaultScanConcurrency
    /\ pods = <<>>
    /\ podCache = <<>>
    /\ targetPods = <<>>
    /\ mainPc = "off"
    /\ wpc = <<>>
    /\ semaphore = 0
    /\ semaphoreCap = 0
    /\ wg = 0
    /\ results = <<>>
    /\ closed = FALSE
    /\ allResults = <<>>
    /\ repo = EmptyMap
    /\ savedCount = 0
    /\ saveErr = FALSE
    /\ savedTo = ""
    /\ scanned = FALSE

RiskOff ==
    /\ rpc = "off"
    /\ permsA = <<>>
    /\ permsB = <<>>
    /\ riskA = RiskNone
    /\ riskB = RiskNone
    /\ taskA = RiskTask
    /\ rowA = [noColor |-> TRUE, list |-> <<>>, text |-> "-"]
    /\ recordA = NewRecord(RiskTask)

InitRisk ==
    /\ rpc = "input"
    /\ \E B \in AllowedSets : \E A \in SUBSET B :
          /\ permsA = PermList(A)
          /\ permsB = PermList(B)
    /\ riskA = RiskNone
    /\ riskB = RiskNone
    /\ taskA \in RiskTasks
    /\ rowA = [noColor |-> TRUE, list |-> <<>>, text |-> "-"]
    /\ recordA = NewRecord(taskA)
    /\ ScanOff
    /\ AuxOff

\* CalculateRiskLevel on both lists; on the answers of list A to the static
\* probes the tail of scanPodToken (lines 291-301), buildFlags, and the
\* record saveResults makes of it
Classify ==
    /\ rpc = "input"
    /\ rpc' = "classified"
    /\ riskA' = CalculateRiskLevel(permsA)
    /\ riskB' = CalculateRiskLevel(permsB)
    /\ LET task == Classified(taskA, ScanPermissions(permsA))
       IN /\ taskA' = task
          /\ \E noColor \in BOOLEAN :
                rowA' = [noColor |-> noColor,
                         list |-> buildFlagList(noColor, task),
                         text |-> buildFlags(noColor, task)]
          /\ recordA' = NewRecord(task)
    /\ UNCHANGED <<permsA, permsB>>
    /\ UNCHANGED <<scanVars, auxVars>>

NextRisk == Classify

SpecRisk == InitRisk /\ [][NextRisk]_vars

---------------------------------------------------------------------------
(* Spec: set concurrency, then one scan (ScanCmd.Execute) *)

Init ==
    /\ RiskOff
    /\ AuxOff
    /\ concurrency = DefaultScanConcurrency
    /\ pods \in PodLists
    /\ podCache = <<>>
    /\ targetPods = <<>>
    /\ mainPc = "idle"
    /\ wpc = <<>>
    /\ semaphore = 0
    /\ semaphoreCap = 0
    /\ wg = 0
    /\ results = <<>>
    /\ closed = FALSE
    /\ allResults = <<>>
    /\ repo = EmptyMap
    /\ savedCount = 0
    /\ saveErr = FALSE
    /\ savedTo = ""
    /\ scanned = FALSE

\* the console reads its next command: no command has run yet, or the one
\* before has returned
AtPrompt == mainPc \in {"idle", "done", "empty", "failed"}

\* SetCmd.Execute, case "concurrency": values below 1 are refused
SetConcurrency(n) ==
    /\ AtPrompt
    /\ concurrency' = IF n < 1 THEN concurrency ELSE n
    /\ UNCHANGED <<semaphoreCap, pods, podCache, targetPods, mainPc, wpc, semaphore, wg,
                   results, closed, allResults, repo, savedCount, saveErr, savedTo,
                   scanned>>
    /\ UNCHANGED <<riskVars, auxVars>>

\* what kubelet.GetPodsWithContainers answers to the `pods` command: the
\* list the scan gets, or that list without its last pod
PodsAnswers(ps) ==
    {ps} \cup (IF Len(ps) > 0 THEN {SubSeq(ps, 1, Len(ps) - 1)} ELSE {})

\* PodsCmd.Execute lines 82-101: with an empty cache, or with --refresh, the
\* pods are fetched and cached; when the client or the fetch fails the
\* command returns and the cache stays
PodsCmd(refresh, fetched, answer) ==
    /\ AtPrompt
    /\ podCache' = IF (Len(podCache) = 0 \/ refresh) /\ fetched
                   THEN answer ELSE podCache
    /\ UNCHANGED <<concurrency, semaphoreCap, pods, targetPods, mainPc, wpc, semaphore, wg,
                   results, closed, allResults, repo, savedCount, saveErr, savedTo,
                   scanned>>
    /\ UNCHANGED <<riskVars, auxVars>>

\* Session.clearCache, as described: drops the pod cache (and the current
\* SA selection) and leaves the repository
ClearCache(cache) == <<>>

\* ClearCmd.Execute: sess.ClearCache()
ClearCmd ==
    /\ AtPrompt
    /\ podCache' = ClearCache(podCache)
    /\ UNCHANGED <<concurrency, semaphoreCap, pods, targetPods, mainPc, wpc, semaphore, wg,
                   results, closed, allResults, repo, savedCount, saveErr, savedTo,
                   scanned>>
    /\ UNCHANGED <<riskVars, auxVars>>

\* Execute lines 109-115
Candidates(ps) ==
    SelectSeq(ps, LAMBDA pod :
        pod.Status = "Running" /\ pod.SecurityFlags.HasSATokenMount)

\* Execute lines 92-104: the kubelet client or the pod list cannot be had
ScanFetchFails ==
    /\ mainPc = "idle"
    /\ mainPc' = "failed"
    /\ UNCHANGED <<concurrency, semaphoreCap, pods, podCache, targetPods, wpc, semaphore, wg,
                   results, closed, allResults, repo, savedCount, saveErr, savedTo,
                   scanned>>
    /\ UNCHANGED <<riskVars, auxVars>>

\* Execute lines 101-149: cache the pods, filter, make the channels (the
\* semaphore with room for sess.Config.Concurrency tasks) and start one
\* goroutine per candidate (wg.Add(1) each) plus the one that closes the
\* results channel
ScanStart ==
    /\ mainPc = "idle"
    /\ podCache' = pods
    /\ targetPods' = Candidates(pods)
    /\ IF Len(Candidates(pods)) = 0
       THEN /\ mainPc' = "empty"
            /\ UNCHANGED <<wpc, wg, semaphoreCap>>
       ELSE /\ mainPc' = "collect"
            /\ semaphoreCap' = concurrency
            /\ wpc' = [i \in 1..Len(Candidates(pods)) |-> "acquire"]
            /\ wg' = Len(Candidates(pods))
    /\ UNCHANGED <<concurrency, pods, semaphore, results, closed, allResults,
                   repo, savedCount, saveErr, savedTo, scanned>>
    /\ UNCHANGED <<riskVars, auxVars>>

\* a semaphore that admits one task more than its capacity
SemaphoreHasRoomOffByOne == semaphore <= semaphoreCap

\* `semaphore <- struct{}{}` can proceed
SemaphoreHasRoom == semaphore < semaphoreCap

\* worker line 138
Acquire(i) ==
    /\ mainPc = "collect"
    /\ wpc[i] = "acquire"
    /\ SemaphoreHasRoom
    /\ semaphore' = semaphore + 1
    /\ wpc' = [wpc EXCEPT ![i] = "scan"]
    /\ UNCHANGED <<concurrency, semaphoreCap, pods, podCache, targetPods, mainPc, wg, results,
                   closed, allResults, repo, savedCount, saveErr, savedTo, scanned>>
    /\ UNCHANGED <<riskVars, auxVars>>

\* worker lines 141-142: scanPodToken returns and its result is sent on
\* the results channel, whose buffer holds len(targetPods) results
ScanPodToken(i) ==
    /\ mainPc = "collect"
    /\ wpc[i] = "scan"
    /\ Len(results) + Len(allResults) < Len(targetPods)
    /\ \E t \in TaskOutcomes :
          results' = Append(results, scanPodToken(targetPods[i], t.exec, t.clientErr,
                                                 t.resps))
    /\ wpc' = [wpc EXCEPT ![i] = "return"]
    /\ UNCHANGED <<concurrency, semaphoreCap, pods, podCache, targetPods, mainPc, semaphore, wg,
                   closed, allResults, repo, savedCount, saveErr, savedTo, scanned>>
    /\ UNCHANGED <<riskVars, auxVars>>

\* the worker's deferred calls run last registered first; line 139:
\* `<-semaphore` frees the slot
Release(i) ==
    /\ mainPc = "collect"
    /\ wpc[i] = "return"
    /\ semaphore' = semaphore - 1
    /\ wpc' = [wpc EXCEPT ![i] = "released"]
    /\ UNCHANGED <<concurrency, semaphoreCap, pods, podCache, targetPods, mainPc, wg, results,
                   closed, allResults, repo, savedCount, saveErr, savedTo, scanned>>
    /\ UNCHANGED <<riskVars, auxVars>>

\* line 137: the deferred wg.Done()
WorkerDone(i) ==
    /\ mainPc = "collect"
    /\ wpc[i] = "released"
    /\ wg' = wg - 1
    /\ wpc' = [wpc EXCEPT ![i] = "done"]
    /\ UNCHANGED <<concurrency, semaphoreCap, pods, podCache, targetPods, mainPc, semaphore,
                   results, closed, allResults, repo, savedCount, saveErr, savedTo,
                   scanned>>
    /\ UNCHANGED <<riskVars, auxVars>>

\* a wait that returns while one worker is still out
WaitReturnsEarly == wg <= 1

\* wg.Wait() returns
WaitReturns == wg = 0

\* lines 146-149: wg.Wait() returns and the channel is closed
CloseResults ==
    /\ mainPc = "collect"
    /\ ~closed
    /\ WaitReturns
    /\ closed' = TRUE
    /\ UNCHANGED <<concurrency, semaphoreCap, pods, podCache, targetPods, mainPc, wpc,
                   semaphore, wg, results, allResults, repo, savedCount, saveErr, savedTo,
                   scanned>>
    /\ UNCHANGED <<riskVars, auxVars>>

\* lines 153-155: one iteration of `for result := range results`
Collect ==
    /\ mainPc = "collect"
    /\ results # <<>>
    /\ allResults' = Append(allResults, Head(results))
    /\ results' = Tail(results)
    /\ UNCHANGED <<concurrency, semaphoreCap, pods, podCache, targetPods, mainPc, wpc,
                   semaphore, wg, closed, repo, savedCount, saveErr, savedTo, scanned>>
    /\ UNCHANGED <<riskVars, auxVars>>

\* lines 157-164: the range loop ends on the closed, drained channel;
\* sortByRisk, saveResults (with SaveBatch when the session has a
\* repository, else the number of records) and MarkScanned
Finish ==
    /\ mainPc = "collect"
    /\ closed
    /\ results = <<>>
    /\ \E sorted \in sortByRisk(allResults) :
          /\ allResults' = sorted
          /\ \E records \in RecordOrders(BuildSAMap(sorted, EmptyMap)) :
                \/ \E fault \in DbFaults(Len(records)) :
                      LET out == SaveBatch(repo, records, fault)
                      IN /\ savedTo' = "db"
                         /\ repo' = out.table
                         /\ savedCount' = out.saved
                         /\ saveErr' = out.err
                \/ /\ savedTo' = "nil"
                   /\ repo' = repo
                   /\ savedCount' = Len(records)
                   /\ saveErr' = FALSE
    /\ scanned' = TRUE
    /\ mainPc' = "done"
    /\ UNCHANGED <<concurrency, semaphoreCap, pods, podCache, targetPods, wpc, semaphore, wg,
                   results, closed>>
    /\ UNCHANGED <<riskVars, auxVars>>

Next ==
    \/ \E n \in 0..MaxConcurrency : SetConcurrency(n)
    \/ \E refresh, fetched \in BOOLEAN : \E answer \in PodsAnswers(pods) :
          PodsCmd(refresh, fetched, answer)
    \/ ClearCmd
    \/ ScanFetchFails
    \/ ScanStart
    \/ \E i \in 1..Len(targetPods) : Acquire(i)
    \/ \E i \in 1..Len(targetPods) : ScanPodToken(i)
    \/ \E i \in 1..Len(targetPods) : Release(i)
    \/ \E i \in 1..Len(targetPods) : WorkerDone(i)
    \/ CloseResults
    \/ Collect
    \/ Finish

Spec == Init /\ [][Next]_vars

---------------------------------------------------------------------------
(* Helpers of the properties *)

ScanDone == mainPc = "done"

\* the positions of allResults whose task succeeded for the SA `key`
ResultsOf(key) ==
    {k \in 1..Len(allResults) :
        /\ allResults[k].Error = ""
        /\ allResults[k].ServiceAccount # ""
        /\ SAKey(allResults[k].TokenInfo[1].Namespace,
                 allResults[k].ServiceAccount) = key}

\* the pod of result r is listed in some record of the repository
PodRecorded(r) ==
    \E key \in DOMAIN repo :
       \E m \in 1..Len(JsonItems(repo[key].Pods)) :
          JsonItems(repo[key].Pods)[m] = SAPodInfo(r)

\* the task ended before a token was parsed: no containers, exec dial error,
\* exec error status, empty token or token parse failure
TaskFailed(r) == r.TokenInfo = <<>>

SharedKey == "default/shared"

PodA == [Name |-> "a", Namespace |-> "default", Container |-> "c0"]
PodB == [Name |-> "b", Namespace |-> "default", Container |-> "c0"]

\* the scan is over, its batch was saved, and the tasks that read the
\* token of default/shared are exactly those of the pods default/a and
\* default/b, which both succeeded with the same probe answers
TwoPodsShareToken ==
    /\ ScanDone
    /\ savedTo = "db"
    /\ ~saveErr
    /\ Cardinality(ResultsOf(SharedKey)) = 2
    /\ {SAPodInfo(allResults[k]) : k \in ResultsOf(SharedKey)} = {PodA, PodB}
    /\ \A k \in 1..Len(allResults) :
          allResults[k].Token = JwtShared => k \in ResultsOf(SharedKey)
    /\ \A k, m \in ResultsOf(SharedKey) :
          allResults[k].Permissions = allResults[m].Permissions

---------------------------------------------------------------------------
(* Properties *)

\* C1 (as claimed): a list whose only allowed probes are (pods, list) and
\* (services, get) is classified LOW.
C1_ReadOnlyIsLow ==
    (/\ rpc = "classified"
     /\ AllowedOf(permsA) = {Probe("pods", "list", "", ""),
                             Probe("services", "get", "", "")})
    => riskA = RiskLow

\* C2: when the only allowed probe of a scan task is (nodes, get, "",
\* proxy), the task is
\* CRITICAL, is not a cluster admin, and its row's flags include PRIV.
C2_NodesProxyPivot ==
    (/\ rpc = "classified"
     /\ AllowedOf(taskA.Permissions) = {Probe("nodes", "get", "", "proxy")})
    => /\ taskA.RiskLevel = RiskCritical
       /\ ~taskA.IsClusterAdmin
       /\ containsFlag(rowA.list, "PRIV")
       /\ rowA.text = Concat(Colored(rowA.noColor, "red", "PRIV"))

C2_Witness ==
    /\ rpc = "classified"
    /\ AllowedOf(taskA.Permissions) = {Probe("nodes", "get", "", "proxy")}
    /\ taskA.RiskLevel = RiskCritical
    /\ ~rowA.noColor
    /\ rowA.text # "-"

\* C3: the record a scan makes of a task has isClusterAdmin true exactly
\* when its riskLevel is ADMIN, whatever probes were allowed.
C3_AdminIffRiskAdmin ==
    rpc = "classified" =>
        (recordA.IsClusterAdmin <=> recordA.RiskLevel = RiskAdmin)

C3_Witness ==
    /\ rpc = "classified"
    /\ recordA.IsClusterAdmin
    /\ recordA.RiskLevel = RiskAdmin
    /\ Cardinality(AllowedOf(taskA.Permissions)) = 2

\* C4: if the allowed probes of A are among those of B, then B is at least
\* as severe as A: RiskLevelOrder[risk(B)] <= RiskLevelOrder[risk(A)].
C4_RiskMonotone ==
    (rpc = "classified" /\ AllowedOf(permsA) \subseteq AllowedOf(permsB))
    => RiskLevelOrder[riskB] <= RiskLevelOrder[riskA]

C4_Witness ==
    /\ rpc = "classified"
    /\ AllowedOf(permsA) # {}
    /\ AllowedOf(permsA) # AllowedOf(permsB)
    /\ RiskLevelOrder[riskB] < RiskLevelOrder[riskA]

\* C5 (as claimed): when the pods default/a and default/b both yield the
\* token of default/shared, the record of default/shared lists the pods as
\* [{default,a,c0},{default,b,c0}], in that order, in every run.  Violated
\* when the task of default/b delivers its result first: the results are
\* collected in the order of delivery and the record lists the pods in it.
C5_PodListInPodOrder ==
    TwoPodsShareToken =>
        /\ SharedKey \in DOMAIN repo
        /\ JsonItems(repo[SharedKey].Pods) = <<PodA, PodB>>

\* C6: the record persisted for an SA carries the most severe tier among
\* the successful tasks of the scan that resolved to that SA.
C6_MostSevereTierWins ==
    ScanDone =>
        \A key \in DOMAIN repo :
            /\ \A k \in ResultsOf(key) :
                  RiskLevelOrder[repo[key].RiskLevel]
                      <= RiskLevelOrder[allResults[k].RiskLevel]
            /\ \E k \in ResultsOf(key) :
                  repo[key].RiskLevel = allResults[k].RiskLevel

C6_Witness ==
    /\ ScanDone
    /\ SharedKey \in DOMAIN repo
    /\ \E k, m \in ResultsOf(SharedKey) :
          /\ allResults[k].RiskLevel = RiskNone
          /\ allResults[m].RiskLevel = RiskAdmin
    /\ repo[SharedKey].RiskLevel = RiskAdmin

\* C7 (as claimed): a flag of a record is set whenever some pod of the scan
\* that carried the SA's token has that flag.
C7_FlagsAreUnion ==
    ScanDone =>
        \A key \in DOMAIN repo : \A k \in ResultsOf(key) :
            /\ allResults[k].SecurityFlags.Privileged
                  => repo[key].SecurityFlags.Privileged
            /\ allResults[k].SecurityFlags.AllowPrivilegeEscalation
                  => repo[key].SecurityFlags.AllowPrivilegeEscalation
            /\ allResults[k].SecurityFlags.HasHostPath
                  => repo[key].SecurityFlags.HasHostPath
            /\ allResults[k].SecurityFlags.HasSecretMount
                  => repo[key].SecurityFlags.HasSecretMount

\* C8: when the scan has collected its results, there is exactly one result
\* per candidate pod, for every concurrency limit.
C8_OneResultPerCandidate ==
    ScanDone =>
        /\ Len(allResults) = Len(targetPods)
        /\ \A i \in 1..Len(targetPods) :
              Cardinality({k \in 1..Len(allResults) :
                  /\ allResults[k].PodName = targetPods[i].PodName
                  /\ allResults[k].Namespace = targetPods[i].Namespace}) = 1

C8_Witness ==
    /\ ScanDone
    /\ Len(targetPods) > semaphoreCap
    /\ Len(allResults) = Len(targetPods)
    /\ \E k, m \in 1..Len(allResults) :
          allResults[k].Error # "" /\ allResults[m].Error = ""

\* C9: while a scan runs the semaphore has as many slots as the session's
\* concurrency setting, and never more than that many tasks are inside
\* scanPodToken at once (with concurrency 1, never two).
C9_AtMostNRunning ==
    /\ mainPc = "collect" => semaphoreCap = concurrency
    /\ Cardinality({i \in 1..Len(wpc) : wpc[i] = "scan"}) <= semaphoreCap

C9_Witness ==
    /\ mainPc = "collect"
    /\ concurrency = 1
    /\ \E i, j \in 1..Len(wpc) : wpc[i] = "scan" /\ wpc[j] = "acquire"

\* C10: a task that fails carries an error message and its pod is in no
\* record; every candidate still has its result, and the tasks that
\* succeeded for an SA are recorded when the batch is saved.
C10_FailedTaskIsolated ==
    ScanDone =>
        /\ Len(allResults) = Len(targetPods)
        /\ \A k \in 1..Len(allResults) :
              /\ TaskFailed(allResults[k]) =>
                    allResults[k].Error # "" /\ ~PodRecorded(allResults[k])
              /\ allResults[k].Error # "" => ~PodRecorded(allResults[k])
              /\ (/\ savedTo = "db"
                  /\ ~saveErr
                  /\ allResults[k].Error = ""
                  /\ allResults[k].ServiceAccount # "")
                 => PodRecorded(allResults[k])
        /\ Cardinality(DOMAIN repo)
              <= Cardinality({k \in 1..Len(allResults) : allResults[k].Error = ""})

C10_Witness ==
    /\ ScanDone
    /\ savedTo = "db"
    /\ ~saveErr
    /\ \E k, m \in 1..Len(allResults) :
          /\ allResults[k].Error = "parse token failed"
          /\ allResults[m].Error = ""
          /\ PodRecorded(allResults[m])

---------------------------------------------------------------------------
(* Exec and ExecInteractive (internal/client/config.go)                    *)
(*                                                                         *)
(* A byte string is a sequence of chunks; a WebSocket message is its       *)
(* channel byte followed by the chunks of its payload, and the empty       *)
(* message is <<>>.                                                        *)

\* largest number of messages the peer sends on one connection
MaxFrames == 2
\* largest number of stdin reads that return data
MaxStdin == 1

StreamStdin == 0
StreamStdout == 1
StreamStderr == 2
StreamError == 3
StreamResize == 4
\* a channel byte the protocol does not define
StreamUnknown == 9

\* payloads of the error channel
StatusSuccess == <<"{", "status", "Success", "}">>
StatusFailure == <<"{", "status", "Failure", "}">>
StatusFailureMessage ==
    <<"{", "status", "Failure", "message", "container not found", "}">>
StatusNoStatus == <<"{", "reason", "NotFound", "}">>
StatusNotJson == <<"command terminated">>

\* the messages a peer may send
Messages ==
    { <<>>,
      <<StreamStdin, "x">>,
      <<StreamStdout>>, <<StreamStdout, "x">>, <<StreamStdout, "y", "z">>,
      <<StreamStderr, "x">>, <<StreamStderr, "y", "z">>,
      <<StreamError>> \o StatusSuccess,
      <<StreamError>> \o StatusFailure,
      <<StreamError>> \o StatusFailureMessage,
      <<StreamError>> \o StatusNoStatus,
      <<StreamError>> \o StatusNotJson,
      <<StreamError>>,
      <<StreamResize, "x">>,
      <<StreamUnknown, "x">> }

\* the ways a connection ends, as ReadMessage reports them: a close frame
\* with code 1000 or 1001, an error whose text contains "close"
\* (close 1006, use of closed network connection), any other error
PeerEnds == {"normal", "goingaway", "abnormal", "reset"}

\* the code of the *websocket.CloseError ReadMessage returns, "" when the
\* error is not a close error
CloseCode(end) ==
    CASE end = "normal" -> "CloseNormalClosure"
      [] end = "goingaway" -> "CloseGoingAway"
      [] end = "abnormal" -> "CloseAbnormalClosure"
      [] OTHER -> ""

\* err.Error(), cut into pieces around the word the loop looks for
ReadErrorText(end) ==
    CASE end = "normal" -> <<"websocket: ", "close", " 1000 (normal)">>
      [] end = "goingaway" -> <<"websocket: ", "close", " 1001 (going away)">>
      [] end = "abnormal" ->
            <<"websocket: ", "close", " 1006 (abnormal closure)">>
      [] OTHER -> <<"read: connection reset by peer">>

\* websocket.IsCloseError(err, codes...)
IsCloseError(end, codes) == CloseCode(end) \in codes

\* strings.Contains(text, word) for a text cut around `word`
Contains(text, word) == \E i \in 1..Len(text) : text[i] = word

\* value of the member `key` of a decoded object, "" when it is absent
Field(data, key) ==
    IF \E i \in 2..(Len(data) - 2) : i % 2 = 0 /\ data[i] = key
    THEN <<data[(CHOOSE i \in 2..(Len(data) - 2) :
                    i % 2 = 0 /\ data[i] = key) + 1]>>
    ELSE <<>>

\* json.Unmarshal(data, &execStatus): fails unless data is one object
Unmarshal(data) ==
    IF Len(data) >= 2 /\ data[1] = "{" /\ data[Len(data)] = "}"
       /\ Len(data) % 2 = 0
    THEN [ok |-> TRUE, Status |-> Field(data, "status"),
          Message |-> Field(data, "message")]
    ELSE [ok |-> FALSE, Status |-> <<>>, Message |-> <<>>]

\* readExecOutput, the StreamError case (lines 675-691)
OnStreamError(result, data) ==
    LET execStatus == Unmarshal(data) IN
    IF execStatus.ok
    THEN IF execStatus.Status # <<"Success">>
         THEN [result EXCEPT !.Error =
                  IF execStatus.Message = <<>> THEN data
                  ELSE execStatus.Message]
         ELSE result
    ELSE [result EXCEPT !.Error = data]

\* a variant of the loop body that drops what follows the first chunk
OnMessageFirstChunk(result, message) ==
    IF Len(message) < 1 THEN result
    ELSE IF message[1] = StreamStdout
         THEN [result EXCEPT !.Stdout =
                  @ \o (IF Len(message) >= 2 THEN <<message[2]>> ELSE <<>>)]
         ELSE result

\* readExecOutput, one round of the loop on a message (lines 661-693)
OnMessage(result, message) ==
    IF Len(message) < 1 THEN result
    ELSE LET channel == message[1]
             data == Tail(message)
         IN  CASE channel = StreamStdout ->
                    [result EXCEPT !.Stdout = @ \o data]
               [] channel = StreamStderr ->
                    [result EXCEPT !.Stderr = @ \o data]
               [] channel = StreamError -> OnStreamError(result, data)
               [] OTHER -> result

\* a variant that stores the read error over an error already recorded
OnReadErrorOverwrite(result, end) ==
    IF IsCloseError(end, {"CloseNormalClosure", "CloseGoingAway"}) THEN result
    ELSE IF ~Contains(ReadErrorText(end), "close")
         THEN [result EXCEPT !.Error = ReadErrorText(end)]
         ELSE result

\* readExecOutput, ReadMessage returned an error (lines 651-659)
OnReadError(result, end) ==
    IF IsCloseError(end, {"CloseNormalClosure", "CloseGoingAway"}) THEN result
    ELSE IF result.Error = <<>> /\ ~Contains(ReadErrorText(end), "close")
         THEN [result EXCEPT !.Error = ReadErrorText(end)]
         ELSE result

\* ExecInteractive, the reader's switch (lines 560-570)
TermWrite(term, message) ==
    IF Len(message) < 1 THEN term
    ELSE LET channel == message[1]
             data == Tail(message)
         IN  CASE channel = StreamStdout -> Append(term, <<"stdout", data>>)
               [] channel = StreamStderr -> Append(term, <<"stderr", data>>)
               [] channel = StreamError ->
                    Append(term, <<"stderr", <<"[Error]">> \o data>>)
               [] OTHER -> term

InitExec ==
    /\ AllPodsOff
    /\ RiskOff
    /\ ScanOff
    /\ PureOff
    /\ DbOff
    /\ SessOff
    /\ xmode \in {"exec", "interactive"}
    /\ xstdinOpt \in BOOLEAN
    /\ (xmode = "exec" => xstdinOpt = FALSE)
    /\ xpc = "dial"
    /\ xpeer = "open"
    /\ xctx = FALSE
    /\ xframes = <<>>
    /\ xresult = EmptyExecResult
    /\ xterm = <<>>
    /\ xreader = "none"
    /\ xfwd = "none"
    /\ xstdin = "open"
    /\ xsent = 0

ExecUnchanged ==
    UNCHANGED <<riskVars, scanVars, pureVars, dbVars, sessVars, allPodsVars>>

\* wsDialer.DialContext fails: the call returns the error (lines 497-503,
\* 520-526)
DialFails ==
    /\ xpc = "dial"
    /\ xpc' = "failed"
    /\ UNCHANGED <<xmode, xstdinOpt, xpeer, xctx, xframes, xresult, xterm,
                   xreader, xfwd, xstdin, xsent>>
    /\ ExecUnchanged

\* the connection opens; ExecInteractive starts its goroutines (543-606)
DialOpens ==
    /\ xpc = "dial"
    /\ xpc' = "open"
    /\ xreader' = IF xmode = "interactive" THEN "read" ELSE "none"
    /\ xfwd' = IF xmode = "interactive" /\ xstdinOpt THEN "read" ELSE "none"
    /\ UNCHANGED <<xmode, xstdinOpt, xpeer, xctx, xframes, xresult, xterm,
                   xstdin, xsent>>
    /\ ExecUnchanged

\* the peer sends a message and readExecOutput handles it
ExecRecv(message) ==
    /\ xmode = "exec"
    /\ xpc = "open"
    /\ xpeer = "open"
    /\ Len(xframes) < MaxFrames
    /\ xframes' = Append(xframes, message)
    /\ xresult' = OnMessage(xresult, message)
    /\ UNCHANGED <<xmode, xstdinOpt, xpc, xpeer, xctx, xterm, xreader, xfwd,
                   xstdin, xsent>>
    /\ ExecUnchanged

\* the peer closes the connection, or the connection breaks
PeerCloses(end) ==
    /\ xpc = "open"
    /\ xpeer = "open"
    /\ xpeer' = end
    /\ UNCHANGED <<xmode, xstdinOpt, xpc, xctx, xframes, xresult, xterm,
                   xreader, xfwd, xstdin, xsent>>
    /\ ExecUnchanged

\* readExecOutput: ReadMessage fails, the loop breaks, Exec returns
ExecReadFails ==
    /\ xmode = "exec"
    /\ xpc = "open"
    /\ xpeer # "open"
    /\ xresult' = OnReadError(xresult, xpeer)
    /\ xpc' = "returned"
    /\ UNCHANGED <<xmode, xstdinOpt, xpeer, xctx, xframes, xterm, xreader,
                   xfwd, xstdin, xsent>>
    /\ ExecUnchanged

\* the caller cancels the context after the connection is open; nothing in
\* Exec, ExecInteractive or readExecOutput reads ctx after DialContext
CancelContext ==
    /\ xpc = "open"
    /\ ~xctx
    /\ xctx' = TRUE
    /\ UNCHANGED <<xmode, xstdinOpt, xpc, xpeer, xframes, xresult, xterm,
                   xreader, xfwd, xstdin, xsent>>
    /\ ExecUnchanged

\* ExecInteractive, reader goroutine: a message arrives (lines 552-571).
\* The `done` channel is never closed, so the select takes its default.
ReaderRecv(message) ==
    /\ xreader = "read"
    /\ xpeer = "open"
    /\ Len(xframes) < MaxFrames
    /\ xframes' = Append(xframes, message)
    /\ xterm' = TermWrite(xterm, message)
    /\ UNCHANGED <<xmode, xstdinOpt, xpc, xpeer, xctx, xresult, xreader, xfwd,
                   xstdin, xsent>>
    /\ ExecUnchanged

\* reader goroutine: ReadMessage fails and the goroutine returns (553-556)
ReaderReadFails ==
    /\ xreader = "read"
    /\ xpeer # "open"
    /\ xreader' = "exit"
    /\ UNCHANGED <<xmode, xstdinOpt, xpc, xpeer, xctx, xframes, xresult, xterm,
                   xfwd, xstdin, xsent>>
    /\ ExecUnchanged

\* conn.WriteMessage of the stdin forwarder (line 596): TRUE when it returns
\* nil.  On an open connection the write succeeds.  Once the reader has
\* handled the peer's close frame the connection has answered it and every
\* later write returns ErrCloseSent; a reset connection refuses the write.
\* In between (the peer has ended, nothing of it is recorded on this side
\* yet) the socket accepts the write or refuses it.
WriteOutcomes(peer, reader) ==
    IF peer = "open" THEN {TRUE}
    ELSE IF peer = "reset" THEN {FALSE}
    ELSE IF peer \in {"normal", "goingaway"} /\ reader = "exit" THEN {FALSE}
    ELSE BOOLEAN

\* stdin forwarder: os.Stdin.Read returns data and WriteMessage sends it;
\* the goroutine returns when WriteMessage returns an error, else it goes
\* back to os.Stdin.Read (lines 586-600)
StdinData ==
    /\ xfwd = "read"
    /\ xstdin = "open"
    /\ \E written \in WriteOutcomes(xpeer, xreader) :
          IF written
          THEN xsent < MaxStdin /\ xsent' = xsent + 1 /\ xfwd' = xfwd
          ELSE xsent' = xsent /\ xfwd' = "exit"
    /\ UNCHANGED <<xmode, xstdinOpt, xpc, xpeer, xctx, xframes, xresult, xterm,
                   xreader, xstdin>>
    /\ ExecUnchanged

\* local stdin reaches end of input or fails
StdinCloses(how) ==
    /\ xpc = "open"
    /\ xfwd = "read"
    /\ xstdin = "open"
    /\ xstdin' = how
    /\ UNCHANGED <<xmode, xstdinOpt, xpc, xpeer, xctx, xframes, xresult, xterm,
                   xreader, xfwd, xsent>>
    /\ ExecUnchanged

\* stdin forwarder: os.Stdin.Read fails and the goroutine returns (587-592)
ForwarderReadFails ==
    /\ xfwd = "read"
    /\ xstdin # "open"
    /\ xfwd' = "exit"
    /\ UNCHANGED <<xmode, xstdinOpt, xpc, xpeer, xctx, xframes, xresult, xterm,
                   xreader, xstdin, xsent>>
    /\ ExecUnchanged

\* wg.Wait returns once every started goroutine has returned (lines 608-610)
InteractiveReturns ==
    /\ xmode = "interactive"
    /\ xpc = "open"
    /\ xreader = "exit"
    /\ xfwd \in {"none", "exit"}
    /\ xpc' = "returned"
    /\ UNCHANGED <<xmode, xstdinOpt, xpeer, xctx, xframes, xresult, xterm,
                   xreader, xfwd, xstdin, xsent>>
    /\ ExecUnchanged

\* the steps the program takes by itself
ExecProgramStep ==
    \/ ExecReadFails
    \/ ReaderReadFails
    \/ ForwarderReadFails
    \/ InteractiveReturns

NextExec ==
    \/ DialFails
    \/ DialOpens
    \/ \E message \in Messages : ExecRecv(message)
    \/ \E end \in PeerEnds : PeerCloses(end)
    \/ ExecReadFails
    \/ CancelContext
    \/ \E message \in Messages : ReaderRecv(message)
    \/ ReaderReadFails
    \/ StdinData
    \/ \E how \in {"eof", "error"} : StdinCloses(how)
    \/ ForwarderReadFails
    \/ InteractiveReturns

SpecExec == InitExec /\ [][NextExec]_vars

\* the runtime schedules every goroutine that can run; what the peer, the
\* user and the caller do is left to them
SpecExecLive == SpecExec /\ WF_vars(ExecProgramStep)

---------------------------------------------------------------------------
(* Properties of Exec and ExecInteractive *)

RECURSIVE ChannelBytes(_, _)
\* the payloads of the messages of `frames` sent on `channel`, joined in
\* arrival order
ChannelBytes(frames, channel) ==
    IF frames = <<>> THEN <<>>
    ELSE (IF Len(Head(frames)) >= 1 /\ Head(frames)[1] = channel
          THEN Tail(Head(frames)) ELSE <<>>)
         \o ChannelBytes(Tail(frames), channel)

\* the last message ReadMessage returned is one the protocol gives no
\* meaning to here: empty, or on channel 0, 4 or an unknown channel
LastIsIgnored(frames) ==
    /\ frames # <<>>
    /\ LET m == frames[Len(frames)] IN
          \/ Len(m) < 1
          \/ m[1] \in {StreamStdin, StreamResize, StreamUnknown}

\* C11: in a non-interactive exec, stdout is the payloads of the channel-1
\* messages joined in arrival order and stderr those of the channel-2
\* messages; a message that is empty or on channel 0, 4 or an unknown
\* channel leaves stdout, stderr and the error as they were.
C11_StreamsAreChannelPayloads ==
    /\ [](xmode = "exec" =>
            /\ xresult.Stdout = ChannelBytes(xframes, StreamStdout)
            /\ xresult.Stderr = ChannelBytes(xframes, StreamStderr))
    /\ [][(/\ xmode = "exec"
           /\ Len(xframes') = Len(xframes) + 1
           /\ LastIsIgnored(xframes'))
          => xresult' = xresult]_vars

C11_Witness ==
    /\ xmode = "exec"
    /\ xpc = "returned"
    /\ xframes = << <<StreamStdout, "y", "z">>, <<StreamStdout, "x">> >>
    /\ xresult.Stdout = <<"y", "z", "x">>

\* C12 (as claimed): once a channel-3 message with a status other than
\* "Success" was received, the result Exec returns has an error.
C12_FailureStatusIsVisible ==
    (/\ xmode = "exec"
     /\ xpc = "returned"
     /\ \E i \in 1..Len(xframes) :
           xframes[i] \in {<<StreamError>> \o StatusFailure,
                           <<StreamError>> \o StatusFailureMessage})
    => xresult.Error # <<>>

\* C13 (as claimed): in ExecInteractive, once the peer has closed or stdin
\* has ended, the call eventually returns.
C13_BothWorkersExit ==
    (/\ xmode = "interactive"
     /\ xpc = "open"
     /\ (xpeer # "open" \/ xstdin # "open"))
    ~> (xpc = "returned")

\* C14 (as claimed): once the context is cancelled on an open connection,
\* the call eventually returns.
C14_CancelReturns == xctx ~> (xpc = "returned")

---------------------------------------------------------------------------
(* extractSensitiveVolumes (internal/client/config.go) *)

\* types.VolumeSpec: Secret, HostPath and Projected are <<>> when nil
VolumeSpec(name, secret, hostPath, projected) ==
    [Name |-> name, Secret |-> secret, HostPath |-> hostPath,
     Projected |-> projected]

\* one source of a projected volume
ProjectedSource(serviceAccountToken, secret) ==
    [ServiceAccountToken |-> serviceAccountToken, Secret |-> secret]

VolumeMount(name, mountPath) == [Name |-> name, MountPath |-> mountPath]

ContainerSpec(volumeMounts) == [VolumeMounts |-> volumeMounts]

SensitiveVolume(name, type, secretName, hostPath) ==
    [Name |-> name, Type |-> type, SecretName |-> secretName,
     HostPath |-> hostPath, MountPath |-> ""]

RECURSIVE MountsOf(_)
\* every volume mount of the containers, in the order the loops visit them
MountsOf(containers) ==
    IF containers = <<>> THEN <<>>
    ELSE Head(containers).VolumeMounts \o MountsOf(Tail(containers))

RECURSIVE PathMap(_, _)
\* `mountPaths[vm.Name] = vm.MountPath` over the mounts (lines 407-412):
\* a later mount of the same volume replaces the path of an earlier one
PathMap(mounts, mountPaths) ==
    IF mounts = <<>> THEN mountPaths
    ELSE PathMap(Tail(mounts),
            (Head(mounts).Name :> Head(mounts).MountPath) @@ mountPaths)

RECURSIVE ProjectedSensitive(_, _)
\* the loop over the sources of a projected volume (lines 431-447)
ProjectedSensitive(name, sources) ==
    IF sources = <<>> THEN <<>>
    ELSE IF Head(sources).ServiceAccountToken
    THEN <<SensitiveVolume(name, "projected-sa-token", "", "")>>
    ELSE IF Head(sources).Secret # <<>>
    THEN <<SensitiveVolume(name, "projected-secret", Head(sources).Secret[1], "")>>
    ELSE ProjectedSensitive(name, Tail(sources))

\* the classification of one volume (lines 415-448): <<>> when sv is nil
SensitiveOf(v) ==
    IF v.Secret # <<>>
    THEN <<SensitiveVolume(v.Name, "secret", v.Secret[1], "")>>
    ELSE IF v.HostPath # <<>>
    THEN <<SensitiveVolume(v.Name, "hostPath", "", v.HostPath[1])>>
    ELSE IF v.Projected # <<>>
    THEN ProjectedSensitive(v.Name, v.Projected[1])
    ELSE <<>>

RECURSIVE SensitiveList(_, _)
\* the loop over the volumes (lines 414-456)
SensitiveList(volumes, mountPaths) ==
    IF volumes = <<>> THEN <<>>
    ELSE LET v == Head(volumes)
             sv == SensitiveOf(v)
         IN (IF sv = <<>> THEN <<>>
             ELSE IF v.Name \in DOMAIN mountPaths
             THEN <<[sv[1] EXCEPT !.MountPath = mountPaths[v.Name]]>>
             ELSE sv)
            \o SensitiveList(Tail(volumes), mountPaths)

extractSensitiveVolumes(volumes, containers) ==
    SensitiveList(volumes, PathMap(MountsOf(containers), EmptyMap))

---------------------------------------------------------------------------
(* The rule-based assessment: config.PermissionRiskRules, rbac.matchRule,  *)
(* GetPermissionInfo, AssessRisk and AssessRiskFromPermissions             *)

PermLevelNormal == 0
PermLevelSensitive == 1
PermLevelDangerous == 2
PermLevelAdmin == 3

PermissionRiskRule(resource, verb, group, subresource, level) ==
    [Resource |-> resource, Verb |-> verb, Group |-> group,
     Subresource |-> subresource, Level |-> level]

PermissionRiskRules ==
    <<
       PermissionRiskRule("*", "*", "*", "", PermLevelAdmin),
       PermissionRiskRule("*", "*", "", "", PermLevelAdmin),
       PermissionRiskRule("clusterroles", "create", "rbac.authorization.k8s.io", "", PermLevelAdmin),
       PermissionRiskRule("clusterroles", "update", "rbac.authorization.k8s.io", "", PermLevelAdmin),
       PermissionRiskRule("clusterroles", "patch", "rbac.authorization.k8s.io", "", PermLevelAdmin),
       PermissionRiskRule("clusterroles", "bind", "rbac.authorization.k8s.io", "", PermLevelAdmin),
       PermissionRiskRule("clusterroles", "escalate", "rbac.authorization.k8s.io", "", PermLevelAdmin),
       PermissionRiskRule("clusterrolebindings", "create", "rbac.authorization.k8s.io", "", PermLevelAdmin),
       PermissionRiskRule("clusterrolebindings", "update", "rbac.authorization.k8s.io", "", PermLevelAdmin),
       PermissionRiskRule("roles", "create", "rbac.authorization.k8s.io", "", PermLevelAdmin),
       PermissionRiskRule("roles", "update", "rbac.authorization.k8s.io", "", PermLevelAdmin),
       PermissionRiskRule("roles", "bind", "rbac.authorization.k8s.io", "", PermLevelAdmin),
       PermissionRiskRule("roles", "escalate", "rbac.authorization.k8s.io", "", PermLevelAdmin),
       PermissionRiskRule("rolebindings", "create", "rbac.authorization.k8s.io", "", PermLevelAdmin),
       PermissionRiskRule("rolebindings", "update", "rbac.authorization.k8s.io", "", PermLevelAdmin),
       PermissionRiskRule("pods", "create", "", "exec", PermLevelDangerous),
       PermissionRiskRule("pods", "get", "", "exec", PermLevelDangerous),
       PermissionRiskRule("pods", "*", "", "exec", PermLevelDangerous),
       PermissionRiskRule("pods", "create", "", "attach", PermLevelDangerous),
       PermissionRiskRule("pods", "get", "", "attach", PermLevelDangerous),
       PermissionRiskRule("pods", "*", "", "attach", PermLevelDangerous),
       PermissionRiskRule("pods", "create", "", "portforward", PermLevelDangerous),
       PermissionRiskRule("pods", "get", "", "portforward", PermLevelDangerous),
       PermissionRiskRule("nodes", "get", "", "proxy", PermLevelDangerous),
       PermissionRiskRule("nodes", "create", "", "proxy", PermLevelDangerous),
       PermissionRiskRule("nodes", "*", "", "proxy", PermLevelDangerous),
       PermissionRiskRule("serviceaccounts", "create", "", "token", PermLevelDangerous),
       PermissionRiskRule("serviceaccounts", "*", "", "token", PermLevelDangerous),
       PermissionRiskRule("certificatesigningrequests", "create", "certificates.k8s.io", "", PermLevelDangerous),
       PermissionRiskRule("certificatesigningrequests", "update", "certificates.k8s.io", "approval", PermLevelDangerous),
       PermissionRiskRule("mutatingwebhookconfigurations", "create", "admissionregistration.k8s.io", "", PermLevelDangerous),
       PermissionRiskRule("mutatingwebhookconfigurations", "update", "admissionregistration.k8s.io", "", PermLevelDangerous),
       PermissionRiskRule("validatingwebhookconfigurations", "create", "admissionregistration.k8s.io", "", PermLevelDangerous),
       PermissionRiskRule("validatingwebhookconfigurations", "update", "admissionregistration.k8s.io", "", PermLevelDangerous),
       PermissionRiskRule("secrets", "get", "", "", PermLevelSensitive),
       PermissionRiskRule("secrets", "list", "", "", PermLevelSensitive),
       PermissionRiskRule("secrets", "watch", "", "", PermLevelSensitive),
       PermissionRiskRule("secrets", "create", "", "", PermLevelSensitive),
       PermissionRiskRule("secrets", "update", "", "", PermLevelSensitive),
       PermissionRiskRule("secrets", "delete", "", "", PermLevelSensitive),
       PermissionRiskRule("secrets", "*", "", "", PermLevelSensitive),
       PermissionRiskRule("pods", "get", "", "log", PermLevelSensitive),
       PermissionRiskRule("pods", "*", "", "log", PermLevelSensitive),
       PermissionRiskRule("pods", "create", "", "", PermLevelSensitive),
       PermissionRiskRule("pods", "delete", "", "", PermLevelSensitive),
       PermissionRiskRule("pods", "update", "", "", PermLevelSensitive),
       PermissionRiskRule("pods", "patch", "", "", PermLevelSensitive),
       PermissionRiskRule("deployments", "create", "apps", "", PermLevelSensitive),
       PermissionRiskRule("deployments", "update", "apps", "", PermLevelSensitive),
       PermissionRiskRule("deployments", "delete", "apps", "", PermLevelSensitive),
       PermissionRiskRule("daemonsets", "create", "apps", "", PermLevelSensitive),
       PermissionRiskRule("daemonsets", "update", "apps", "", PermLevelSensitive),
       PermissionRiskRule("daemonsets", "delete", "apps", "", PermLevelSensitive),
       PermissionRiskRule("statefulsets", "create", "apps", "", PermLevelSensitive),
       PermissionRiskRule("statefulsets", "update", "apps", "", PermLevelSensitive),
       PermissionRiskRule("replicasets", "create", "apps", "", PermLevelSensitive),
       PermissionRiskRule("jobs", "create", "batch", "", PermLevelSensitive),
       PermissionRiskRule("cronjobs", "create", "batch", "", PermLevelSensitive),
       PermissionRiskRule("serviceaccounts", "create", "", "", PermLevelSensitive),
       PermissionRiskRule("serviceaccounts", "update", "", "", PermLevelSensitive),
       PermissionRiskRule("persistentvolumes", "create", "", "", PermLevelSensitive),
       PermissionRiskRule("persistentvolumes", "update", "", "", PermLevelSensitive),
       PermissionRiskRule("persistentvolumeclaims", "create", "", "", PermLevelSensitive),
       PermissionRiskRule("clusterroles", "list", "rbac.authorization.k8s.io", "", PermLevelSensitive),
       PermissionRiskRule("clusterroles", "get", "rbac.authorization.k8s.io", "", PermLevelSensitive),
       PermissionRiskRule("clusterrolebindings", "list", "rbac.authorization.k8s.io", "", PermLevelSensitive),
       PermissionRiskRule("roles", "list", "rbac.authorization.k8s.io", "", PermLevelSensitive),
       PermissionRiskRule("rolebindings", "list", "rbac.authorization.k8s.io", "", PermLevelSensitive),
       PermissionRiskRule("endpoints", "list", "", "", PermLevelSensitive),
       PermissionRiskRule("endpointslices", "list", "discovery.k8s.io", "", PermLevelSensitive) >>

\* matchRule: a field of the rule matches when it is "*" or equal to the
\* permission's field, so a rule with Subresource "" matches only
\* permissions without a subresource
matchRule(p, rule) ==
    /\ (rule.Resource = "*" \/ rule.Resource = p.Resource)
    /\ (rule.Verb = "*" \/ rule.Verb = p.Verb)
    /\ (rule.Group = "*" \/ rule.Group = p.Group)
    /\ (rule.Subresource = "*" \/ rule.Subresource = p.Subresource)

\* GetPermissionInfo: the level of the first rule that matches
GetPermissionInfo(p) ==
    IF \E i \in 1..Len(PermissionRiskRules) : matchRule(p, PermissionRiskRules[i])
    THEN PermissionRiskRules[
            CHOOSE i \in 1..Len(PermissionRiskRules) :
                /\ matchRule(p, PermissionRiskRules[i])
                /\ \A j \in 1..(i - 1) : ~matchRule(p, PermissionRiskRules[j])].Level
    ELSE PermLevelNormal

\* types.PermissionCheckResult: the check and its level
PermissionCheckResult(p, level) == [check |-> p, Level |-> level]

\* AssessRisk (risk.go lines 19-58)
AssessRisk(rs) ==
    LET allowed == SelectSeq(rs, LAMBDA r : r.check.Allowed)
        AdminPerms == SelectSeq(allowed, LAMBDA r : r.Level = PermLevelAdmin)
        DangerousPerms ==
            SelectSeq(allowed, LAMBDA r : r.Level = PermLevelDangerous)
        SensitivePerms ==
            SelectSeq(allowed, LAMBDA r : r.Level = PermLevelSensitive)
        NormalPerms ==
            SelectSeq(allowed, LAMBDA r :
                r.Level \notin {PermLevelAdmin, PermLevelDangerous,
                                PermLevelSensitive})
        admin == \E i \in 1..Len(AdminPerms) :
                    /\ AdminPerms[i].check.Resource = "*"
                    /\ AdminPerms[i].check.Verb = "*"
    IN [Level |-> IF admin THEN RiskAdmin
                  ELSE IF Len(AdminPerms) > 0 THEN RiskCritical
                  ELSE IF Len(DangerousPerms) > 0 THEN RiskHigh
                  ELSE IF Len(SensitivePerms) > 0 THEN RiskMedium
                  ELSE IF Len(NormalPerms) > 0 THEN RiskLow
                  ELSE RiskNone,
        IsClusterAdmin |-> admin,
        AdminPerms |-> AdminPerms,
        DangerousPerms |-> DangerousPerms,
        SensitivePerms |-> SensitivePerms,
        NormalPerms |-> NormalPerms]

\* AssessRiskFromPermissions (risk.go lines 61-76): a denied check keeps
\* the zero level
AssessRiskFromPermissions(permissions) ==
    AssessRisk([i \in 1..Len(permissions) |->
        PermissionCheckResult(permissions[i],
            IF permissions[i].Allowed THEN GetPermissionInfo(permissions[i])
            ELSE PermLevelNormal)])

---------------------------------------------------------------------------
(* SpecPure: Parse, CheckPermissions and extractSensitiveVolumes applied   *)
(* to bounded inputs                                                        *)

\* largest number of probes in a CheckPermissions batch
MaxProbes == 2
\* largest number of containers of a pod
MaxContainers == 2

\* the values of the kubernetes.io claim
K8sClaims ==
    {<<>>} \cup
    {<<[namespace |-> ns, name |-> name]>> :
        ns \in {<<>>, <<"default">>}, name \in {<<>>, <<"shared">>}}

\* the values of the sub claim, split at ":"
SubClaims ==
    {<<>>,
     <<"system", "serviceaccount", "bar", "foo">>,
     <<"system", "node", "n1">>,
     <<"admin">>}

ParseInputs ==
    {Jwt(nparts, enc, isJson, k8s, sub) :
        nparts \in {2, 3}, enc \in {"rawurl", "std", "bad"},
        isJson \in BOOLEAN, k8s \in K8sClaims, sub \in SubClaims}

\* the requests of a batch
ProbeRequests ==
    {Probe("pods", "list", "", ""),
     Probe("deployments", "create", "apps", ""),
     Probe("nodes", "get", "", "proxy")}

RECURSIVE SeqsUpTo(_, _)
\* the sequences over S of length at most n
SeqsUpTo(S, n) ==
    IF n = 0 THEN {<<>>}
    ELSE SeqsUpTo(S, n - 1) \cup
         {Append(q, x) : q \in {r \in SeqsUpTo(S, n - 1) : Len(r) = n - 1},
                         x \in S}

CheckInputs ==
    {[reqs |-> [i \in 1..Len(q) |-> q[i][1]],
      resps |-> [i \in 1..Len(q) |-> q[i][2]]] :
        q \in SeqsUpTo(ProbeRequests \X Responses, MaxProbes)}

\* the volumes a pod may declare under the name `name`
VolumesNamed(name) ==
    {VolumeSpec(name, <<"creds">>, <<>>, <<>>),
     VolumeSpec(name, <<>>, <<"/var/run">>, <<>>),
     VolumeSpec(name, <<>>, <<>>, <<<<ProjectedSource(TRUE, <<>>)>>>>),
     VolumeSpec(name, <<>>, <<>>,
                <<<<ProjectedSource(FALSE, <<>>),
                    ProjectedSource(FALSE, <<"tls">>)>>>>),
     VolumeSpec(name, <<>>, <<>>, <<<<ProjectedSource(FALSE, <<>>)>>>>),
     VolumeSpec(name, <<>>, <<>>,
                <<<<ProjectedSource(TRUE, <<>>),
                    ProjectedSource(FALSE, <<"tls">>)>>>>),
     VolumeSpec(name, <<>>, <<>>,
                <<<<ProjectedSource(FALSE, <<"tls">>),
                    ProjectedSource(TRUE, <<>>)>>>>),
     VolumeSpec(name, <<>>, <<>>, <<>>)}

\* volume names are unique within a pod
VolumeLists ==
    {<<>>} \cup {<<v>> : v \in VolumesNamed("v1")}
           \cup {<<v, w>> : v \in VolumesNamed("v1"), w \in VolumesNamed("v2")}

ContainerSpecs ==
    {ContainerSpec(<<>>)} \cup
    {ContainerSpec(<<VolumeMount(name, path)>>) :
        name \in {"v1", "v2"}, path \in {"/a", "/b"}}

\* the probes of the permission lists handed to the two classifiers
AssessProbes ==
    << Probe("nodes", "get", "", "proxy"),
       Probe("nodes", "list", "", ""),
       Probe("pods", "list", "", ""),
       Probe("pods", "get", "", "log"),
       Probe("services", "create", "", ""),
       Probe("*", "*", "", ""),
       Probe("*", "*", "apps", "scale") >>

\* the permission lists over AssessProbes, one per set of allowed probes
AssessInputs ==
    {[i \in 1..Len(AssessProbes) |-> PermissionCheck(AssessProbes[i], i \in A)] :
        A \in SUBSET (1..Len(AssessProbes))}

\* the API server refuses every review with 403
AllForbidden == [i \in 1..Len(PermissionsToCheck) |-> RespForbidden]

\* every review fails, each in its own way
AllFailMixed ==
    [i \in 1..Len(PermissionsToCheck) |->
        IF i % 3 = 0 THEN RespNetErr
        ELSE IF i % 3 = 1 THEN RespForbidden ELSE RespBadJson]

\* a pod, what its exec answers and what the API server answers
ScanTaskInputs ==
    {[pod |-> PodContainerInfo("default", "a", "Running", containers,
                               SecurityFlags(FALSE, FALSE, FALSE, FALSE, TRUE)),
      exec |-> exec,
      clientErr |-> FALSE,
      resps |-> Answers(GrantAdmin)] :
        containers \in {<<>>, <<"c0", "c1">>},
        exec \in {ExecOutcome(TRUE, "", Stdout(EmptyToken)),
                  ExecOutcome(FALSE, "container not found", Stdout(EmptyToken)),
                  ExecOutcome(FALSE, "", Stdout(EmptyToken)),
                  ExecOutcome(FALSE, "", Stdout(JwtBad)),
                  ExecOutcome(FALSE, "", Stdout(JwtShared))}}
    \cup
    {[pod |-> PodContainerInfo("default", "a", "Running", <<"c0">>, flags),
      exec |-> ExecOutcome(FALSE, "", Stdout(jwt)),
      clientErr |-> clientErr,
      resps |-> resps] :
        flags \in {SecurityFlags(FALSE, FALSE, FALSE, FALSE, TRUE),
                   SecurityFlags(TRUE, FALSE, TRUE, FALSE, TRUE)},
        jwt \in {JwtShared, JwtOther, JwtNoSA},
        clientErr \in BOOLEAN,
        resps \in {Unreachable, AllForbidden, AllFailMixed, Answers(GrantNone),
                   Answers(GrantProxy), Answers(GrantAdmin)}}

ExtractInputs ==
    {[volumes |-> vs, containers |-> cs] :
        vs \in VolumeLists, cs \in SeqsUpTo(ContainerSpecs, MaxContainers)}

InitPure ==
    /\ AllPodsOff
    /\ RiskOff
    /\ ScanOff
    /\ ExecOff
    /\ DbOff
    /\ SessOff
    /\ ppc = "input"
    /\ pout = <<>>
    /\ \/ pfn = "Parse" /\ pin \in ParseInputs
       \/ pfn = "CheckPermissions" /\ pin \in CheckInputs
       \/ pfn = "extractSensitiveVolumes" /\ pin \in ExtractInputs
       \/ pfn = "AssessRiskFromPermissions" /\ pin \in AssessInputs
       \/ pfn = "scanPodToken" /\ pin \in ScanTaskInputs

PureUnchanged ==
    UNCHANGED <<pfn, pin, riskVars, scanVars, execVars, dbVars, sessVars,
                allPodsVars>>

ApplyParse ==
    /\ ppc = "input"
    /\ pfn = "Parse"
    /\ pout' = Parse(pin)
    /\ ppc' = "done"
    /\ PureUnchanged

\* CheckPermissions always returns a nil error (line 285)
ApplyCheckPermissions ==
    /\ ppc = "input"
    /\ pfn = "CheckPermissions"
    /\ pout' = [results |-> CheckPermissions(pin.reqs, pin.resps), err |-> FALSE]
    /\ ppc' = "done"
    /\ PureUnchanged

ApplyExtractSensitiveVolumes ==
    /\ ppc = "input"
    /\ pfn = "extractSensitiveVolumes"
    /\ pout' = extractSensitiveVolumes(pin.volumes, pin.containers)
    /\ ppc' = "done"
    /\ PureUnchanged

\* both classifiers on the same permission list
ApplyAssessRiskFromPermissions ==
    /\ ppc = "input"
    /\ pfn = "AssessRiskFromPermissions"
    /\ pout' = [assessment |-> AssessRiskFromPermissions(pin),
                level |-> CalculateRiskLevel(pin),
                admin |-> IsClusterAdmin(pin)]
    /\ ppc' = "done"
    /\ PureUnchanged

\* one per-pod task and the records saveResults makes of its result
ApplyScanPodToken ==
    /\ ppc = "input"
    /\ pfn = "scanPodToken"
    /\ pout' = [result |-> scanPodToken(pin.pod, pin.exec, pin.clientErr, pin.resps),
                saMap |-> BuildSAMap(
                    <<scanPodToken(pin.pod, pin.exec, pin.clientErr, pin.resps)>>, EmptyMap)]
    /\ ppc' = "done"
    /\ PureUnchanged

NextPure ==
    \/ ApplyParse
    \/ ApplyCheckPermissions
    \/ ApplyExtractSensitiveVolumes
    \/ ApplyAssessRiskFromPermissions
    \/ ApplyScanPodToken

SpecPure == InitPure /\ [][NextPure]_vars

---------------------------------------------------------------------------
(* Properties of Parse, CheckPermissions and extractSensitiveVolumes *)

PureDone(fn) == pfn = fn /\ ppc = "done"

\* the API server answered the review with 200 or 201 and allowed = true
ReviewAllows(resp) ==
    /\ ~resp.neterr
    /\ resp.code \in {200, 201}
    /\ resp.json
    /\ resp.allowed

\* C15: CheckPermissions returns one result per request, in request order
\* and with the request's resource, verb, group and subresource; a result
\* is allowed only when the review succeeded with 200 or 201 and says so,
\* a failed probe stops nothing, and the batch returns no error.
C15_OneResultPerProbe ==
    PureDone("CheckPermissions") =>
        /\ ~pout.err
        /\ Len(pout.results) = Len(pin.reqs)
        /\ \A i \in 1..Len(pin.reqs) :
              /\ pout.results[i].Resource = pin.reqs[i].Resource
              /\ pout.results[i].Verb = pin.reqs[i].Verb
              /\ pout.results[i].Group = pin.reqs[i].Group
              /\ pout.results[i].Subresource = pin.reqs[i].Subresource
              /\ pout.results[i].Allowed <=> ReviewAllows(pin.resps[i])

C15_Witness ==
    /\ PureDone("CheckPermissions")
    /\ Len(pin.reqs) = 2
    /\ pin.resps[1] = RespForbidden
    /\ pin.resps[2] = RespAllowedOK
    /\ ~pout.results[1].Allowed
    /\ pout.results[2].Allowed

\* the token has three parts, decodes and holds a JSON object
ParseAccepts(token) ==
    token.nparts = 3 /\ token.enc # "bad" /\ token.isJson

\* the sub claim reads system:serviceaccount:{ns}:{name}
SubNamesSA(token) ==
    /\ Len(token.sub) >= 4
    /\ token.sub[1] = "system"
    /\ token.sub[2] = "serviceaccount"

\* the kubernetes.io claim holds a service-account name
K8sNamesSA(token) == Len(token.k8s) = 1 /\ Len(token.k8s[1].name) = 1

\* C16 (as claimed): Parse falls back to the sub claim only when the
\* kubernetes.io claim is absent: with that claim present the result never
\* comes from sub.
C16_SubOnlyWhenClaimAbsent ==
    (PureDone("Parse") /\ ParseAccepts(pin)) =>
        /\ ~pout.err
        /\ (Len(pin.k8s) = 0 /\ SubNamesSA(pin)) =>
              pout.info = TokenInfo(pin.sub[4], pin.sub[3])
        /\ (Len(pin.k8s) = 1 /\ SubNamesSA(pin)) =>
              pout.info # TokenInfo(pin.sub[4], pin.sub[3])

\* C16 (amended): Parse falls back to the sub claim exactly when the
\* kubernetes.io claim gives no service-account name (it is absent, or it
\* lacks the name) and sub reads system:serviceaccount:{ns}:{name}; both
\* fields then come from sub.  A name in the kubernetes.io claim is never
\* overridden, nor is the namespace that comes with it.
C16_SubWhenNoK8sName ==
    (PureDone("Parse") /\ ParseAccepts(pin)) =>
        /\ ~pout.err
        /\ (~K8sNamesSA(pin) /\ SubNamesSA(pin)) =>
              pout.info = TokenInfo(pin.sub[4], pin.sub[3])
        /\ K8sNamesSA(pin) =>
              /\ pout.info.ServiceAccount = pin.k8s[1].name[1]
              /\ pout.info.Namespace =
                    IF Len(pin.k8s[1].namespace) = 1
                    THEN pin.k8s[1].namespace[1] ELSE ""
        /\ (~K8sNamesSA(pin) /\ ~SubNamesSA(pin)) =>
              /\ pout.info.ServiceAccount = ""
              /\ pout.info.Namespace =
                    IF Len(pin.k8s) = 1 /\ Len(pin.k8s[1].namespace) = 1
                    THEN pin.k8s[1].namespace[1] ELSE ""

C16_Witness ==
    /\ PureDone("Parse")
    /\ ParseAccepts(pin)
    /\ pin.k8s = <<[namespace |-> <<"default">>, name |-> <<"shared">>]>>
    /\ pin.sub = <<"system", "serviceaccount", "bar", "foo">>
    /\ pout.info = TokenInfo("shared", "default")

\* C20 (as claimed): every mount, in any container, of a volume that is
\* sensitive appears in the sensitive-volume list under that volume's name
\* with the mount's own mountPath.
C20_EveryMountReflected ==
    PureDone("extractSensitiveVolumes") =>
        \A c \in 1..Len(pin.containers) :
          \A m \in 1..Len(pin.containers[c].VolumeMounts) :
            LET vm == pin.containers[c].VolumeMounts[m] IN
            (\E v \in 1..Len(pin.volumes) :
                pin.volumes[v].Name = vm.Name
                /\ SensitiveOf(pin.volumes[v]) # <<>>)
            => \E k \in 1..Len(pout) :
                  pout[k].Name = vm.Name /\ pout[k].MountPath = vm.MountPath

---------------------------------------------------------------------------
(* SpecDb: the service_accounts repository (internal/db/serviceaccounts.go) *)
(* The id column, which the table assigns, is left out of the rows.         *)

\* largest number of repository calls
MaxDbCalls == 3
\* largest number of records in one batch
MaxBatch == 2

\* the columns of a record that tell the rows of this model apart
DbRecord(namespace, name, riskLevel) ==
    [Namespace |-> namespace, Name |-> name, RiskLevel |-> riskLevel]

DbRecords ==
    {DbRecord("default", "a", RiskAdmin),
     DbRecord("default", "a", RiskLow),
     DbRecord("default", "b", RiskNone),
     DbRecord("kube-system", "a", RiskLow)}

\* the `CASE risk_level WHEN ... ELSE 5 END` of GetAll's ORDER BY
GetAllRank(riskLevel) ==
    CASE riskLevel = RiskAdmin -> 0
      [] riskLevel = RiskCritical -> 1
      [] riskLevel = RiskHigh -> 2
      [] riskLevel = RiskMedium -> 3
      [] riskLevel = RiskLow -> 4
      [] OTHER -> 5

\* the text order of the names and namespaces used here
TextRank(str) ==
    CASE str = "a" -> 1
      [] str = "b" -> 2
      [] str = "default" -> 3
      [] str = "kube-system" -> 4
      [] OTHER -> 0

\* ORDER BY risk rank, namespace, name
RowBefore(a, b) ==
    \/ GetAllRank(a.RiskLevel) < GetAllRank(b.RiskLevel)
    \/ /\ GetAllRank(a.RiskLevel) = GetAllRank(b.RiskLevel)
       /\ \/ TextRank(a.Namespace) < TextRank(b.Namespace)
          \/ /\ a.Namespace = b.Namespace
             /\ TextRank(a.Name) < TextRank(b.Name)

RECURSIVE OrderRows(_)
OrderRows(rows) ==
    IF rows = {} THEN <<>>
    ELSE LET first == CHOOSE x \in rows :
                         \A y \in rows \ {x} : RowBefore(x, y)
         IN <<first>> \o OrderRows(rows \ {first})

\* GetAll: every row of the table, ordered
GetAll(table) == OrderRows({table[k] : k \in DOMAIN table})

\* How a read goes: "ok"; conn.Query fails ("query"); rows.Scan fails on
\* the row after the first k ("scan"); or rows.Next ends the loop on an
\* error after k rows ("next"), which scanSARows does not tell from the end
\* of the rows.
ReadFault(kind, k) == [kind |-> kind, k |-> k]

ReadFaults(n) ==
    {ReadFault("ok", n), ReadFault("query", 0)}
    \cup {ReadFault(kind, k) : kind \in {"scan", "next"}, k \in 0..(n - 1)}

\* query and scanSARows over GetAll's statement: the rows and the error
query(table, fault) ==
    IF fault.kind \in {"query", "scan"} THEN [rows |-> <<>>, err |-> TRUE]
    ELSE [rows |-> SubSeq(GetAll(table), 1, fault.k), err |-> FALSE]

\* Save: INSERT OR REPLACE of one record, or the statement fails
Save(table, record, fails) ==
    IF fails THEN [table |-> table, err |-> TRUE]
    ELSE [table |-> Upsert(table, record), err |-> FALSE]

\* Clear: DELETE FROM service_accounts, or the statement fails
Clear(table, fails) ==
    IF fails THEN [table |-> table, err |-> TRUE]
    ELSE [table |-> EmptyMap, err |-> FALSE]

\* the keys of the records of a batch
BatchKeys(records) ==
    {SAKey(records[i].Namespace, records[i].Name) : i \in 1..Len(records)}

\* the last record of a batch under `key`
LastInBatch(records, key) ==
    records[CHOOSE i \in 1..Len(records) :
        /\ SAKey(records[i].Namespace, records[i].Name) = key
        /\ \A j \in (i + 1)..Len(records) :
              SAKey(records[j].Namespace, records[j].Name) # key]

\* what was last written per key, once a batch is committed or a record
\* is saved
Written(written, records) ==
    [key \in DOMAIN written \cup BatchKeys(records) |->
        IF key \in BatchKeys(records) THEN LastInBatch(records, key)
        ELSE written[key]]

InitDb ==
    /\ AllPodsOff
    /\ RiskOff
    /\ ScanOff
    /\ ExecOff
    /\ PureOff
    /\ SessOff
    /\ dbTable = EmptyMap
    /\ dbWritten = EmptyMap
    /\ dbBefore = EmptyMap
    /\ dbLast = NoDbCall
    /\ dbCalls = 0
    /\ dbInTx = FALSE

DbUnchanged ==
    UNCHANGED <<riskVars, scanVars, execVars, pureVars, sessVars, allPodsVars>>

\* SaveBatch on the repository's connection.  Inside a transaction left
\* open Begin fails (no transaction within a transaction).
DbSaveBatch(records, fault) ==
    /\ dbCalls < MaxDbCalls
    /\ dbInTx => fault.kind = "begin"
    /\ LET out == SaveBatch(dbTable, records, fault)
       IN /\ dbTable' = out.table
          /\ dbInTx' = (dbInTx \/ out.open)
          /\ dbLast' = [op |-> "saveBatch", batch |-> records,
                        err |-> out.err, saved |-> out.saved, out |-> <<>>,
                        cut |-> FALSE]
          /\ dbWritten' = IF out.err THEN dbWritten
                          ELSE Written(dbWritten, records)
    /\ dbBefore' = dbTable
    /\ dbCalls' = dbCalls + 1
    /\ DbUnchanged

DbClear(fails) ==
    /\ dbCalls < MaxDbCalls
    /\ LET out == Clear(dbTable, fails)
       IN /\ dbTable' = out.table
          /\ dbLast' = [op |-> "clear", batch |-> <<>>, err |-> out.err,
                        saved |-> 0, out |-> <<>>, cut |-> FALSE]
          /\ dbWritten' = IF out.err THEN dbWritten ELSE EmptyMap
    /\ dbBefore' = dbTable
    /\ dbCalls' = dbCalls + 1
    /\ UNCHANGED dbInTx
    /\ DbUnchanged

\* Save: one INSERT OR REPLACE on the connection, without a transaction of
\* its own, or it fails
DbSave(record, fails) ==
    /\ dbCalls < MaxDbCalls
    /\ LET out == Save(dbTable, record, fails)
       IN /\ dbTable' = out.table
          /\ dbLast' = [op |-> "save", batch |-> <<record>>, err |-> out.err,
                        saved |-> 0, out |-> <<>>, cut |-> FALSE]
          /\ dbWritten' = IF out.err THEN dbWritten
                          ELSE Written(dbWritten, <<record>>)
    /\ dbBefore' = dbTable
    /\ dbCalls' = dbCalls + 1
    /\ UNCHANGED dbInTx
    /\ DbUnchanged

DbGetAll(fault) ==
    /\ dbCalls < MaxDbCalls
    /\ LET res == query(dbTable, fault)
       IN dbLast' = [op |-> "getAll", batch |-> dbLast.batch, err |-> res.err,
                     saved |-> 0, out |-> res.rows, cut |-> fault.kind = "next"]
    /\ dbBefore' = dbTable
    /\ dbCalls' = dbCalls + 1
    /\ UNCHANGED <<dbTable, dbWritten, dbInTx>>
    /\ DbUnchanged

NextDb ==
    \/ \E records \in SeqsUpTo(DbRecords, MaxBatch) :
          \E fault \in DbFaults(Len(records)) : DbSaveBatch(records, fault)
    \/ \E record \in DbRecords : \E fails \in BOOLEAN : DbSave(record, fails)
    \/ \E fails \in BOOLEAN : DbClear(fails)
    \/ \E fault \in ReadFaults(Cardinality(DOMAIN dbTable)) : DbGetAll(fault)

SpecDb == InitDb /\ [][NextDb]_vars

---------------------------------------------------------------------------
(* Properties of the repository *)

\* C17: a SaveBatch call that returns an error, whichever step failed,
\* leaves the table exactly as it was before the call; one that returns no
\* error has written every record of the batch.  Violated by a COMMIT that
\* fails and leaves the transaction open: nothing rolls it back, and the
\* connection goes on seeing the rows of the batch.
C17_SaveBatchAllOrNothing ==
    dbLast.op = "saveBatch" =>
        /\ dbLast.err => dbTable = dbBefore
        /\ ~dbLast.err =>
              /\ dbLast.saved = Len(dbLast.batch)
              /\ \A i \in 1..Len(dbLast.batch) :
                    SAKey(dbLast.batch[i].Namespace, dbLast.batch[i].Name)
                        \in DOMAIN dbTable

\* the keys written since the last clear
WrittenKeys == DOMAIN dbWritten

\* the last record written under `key`
LastWritten(key) == dbWritten[key]

\* C18 (as claimed): a getAll that returns a list returns exactly one
\* record per key written by a committed batch (or a Save) since the last
\* clear, each equal (in the columns SaveBatch writes) to the last record
\* written under that key, and nothing else; with nothing written since
\* the last clear it returns the empty list.  Violated by a read that
\* rows.Next ends on an error (the rows read so far are returned with a nil
\* error), and by a read on a connection that a failed COMMIT has left
\* inside its transaction (the rows of that batch are returned too).
C18_GetAllIsLastWritten ==
    (dbLast.op = "getAll" /\ ~dbLast.err) =>
        /\ Len(dbLast.out) = Cardinality(WrittenKeys)
        /\ {dbLast.out[i] : i \in 1..Len(dbLast.out)}
              = {LastWritten(key) : key \in WrittenKeys}
        /\ (dbWritten = EmptyMap => dbLast.out = <<>>)

---------------------------------------------------------------------------
(* SpecSession: `set target`, `set port`, `set token`, `set token-file`,   *)
(* `set proxy`, the two versions of `connect` and the                      *)
(* session's Kubelet client cache.  The session's own methods are modelled *)
(* from their description: getKubeletClient() is lazy, verifies kubeletIP  *)
(* and token, and caches the client until disconnect() or a mutation of    *)
(* proxy or endpoint.                                                      *)

\* largest number of commands run in a session
MaxCommands == 3

KubeletIPs == {"10.0.0.1", "10.0.0.2"}
KubeletPorts == {10250, 10255}
ProxyValues == {"", "none", "socks5://127.0.0.1:1080"}
Tokens == {"token", "t2"}

\* a token file: whether os.ReadFile can read it, and its text without the
\* white space around it
TokenFile(path, readable, text) ==
    [path |-> path, readable |-> readable, text |-> text]

TokenFiles ==
    {TokenFile("/missing", FALSE, ""), TokenFile("/blank", TRUE, ""),
     TokenFile("/token", TRUE, "t3")}

\* token.Read: the trimmed text of the file, an error when the file cannot
\* be read or holds only white space
Read(file) ==
    IF ~file.readable \/ file.text = "" THEN [token |-> "", err |-> TRUE]
    ELSE [token |-> file.text, err |-> FALSE]

\* the client was built for the endpoint and the proxy of the configuration
SameEndpoint(client, config) ==
    /\ client.ip = config.KubeletIP
    /\ client.port = config.KubeletPort
    /\ client.proxy = config.ProxyURL

\* what a client is built from: the endpoint, the proxy and the token
ClientConfig(config) ==
    [ip |-> config.KubeletIP, port |-> config.KubeletPort,
     proxy |-> config.ProxyURL, token |-> config.Token]

\* a getter that hands out the cached client whatever the configuration
GetKubeletClientStale(config, cached) ==
    IF cached # <<>>
    THEN [client |-> cached, err |-> FALSE]
    ELSE IF config.KubeletIP = "" \/ config.Token = ""
    THEN [client |-> <<>>, err |-> TRUE]
    ELSE [client |-> <<ClientConfig(config)>>, err |-> FALSE]

\* sess.GetKubeletClient(): the cached client while proxy and endpoint are
\* those it was built from, else a new one built from the configuration
GetKubeletClient(config, cached) ==
    IF cached # <<>> /\ SameEndpoint(cached[1], config)
    THEN [client |-> cached, err |-> FALSE]
    ELSE IF config.KubeletIP = "" \/ config.Token = ""
    THEN [client |-> <<>>, err |-> TRUE]
    ELSE [client |-> <<ClientConfig(config)>>, err |-> FALSE]

\* sess.Disconnect(): drops the cached client
Disconnect(cached) == <<>>

\* sess.Connect(): `fails` is whether the connection attempt returns an
\* error; a successful one raises the "isConnected" flag, a failed one
\* leaves it.  The cached client stays: it is kept until disconnect() or a
\* mutation of proxy or endpoint.
SessionConnect(isConnected, fails) ==
    [isConnected |-> IF fails THEN isConnected ELSE TRUE, err |-> fails]

\* the arguments of `connect`: none, or an IP address
ConnectArgs == {<<>>} \cup {<<ip>> : ip \in KubeletIPs}

InitSession ==
    /\ AllPodsOff
    /\ RiskOff
    /\ ScanOff
    /\ ExecOff
    /\ PureOff
    /\ DbOff
    /\ sessConfig = [KubeletIP |-> "", KubeletPort |-> 10250, ProxyURL |-> "",
                     Token |-> "token", TokenFile |-> ""]
    /\ sessClient = <<>>
    /\ sessLast = NoSessCommand
    /\ sessCalls = 0
    /\ sessIsConnected = FALSE

SessUnchanged ==
    UNCHANGED <<riskVars, scanVars, execVars, pureVars, dbVars, allPodsVars>>

\* set target <ip> (set.go lines 65-67)
SetTarget(ip) ==
    /\ sessCalls < MaxCommands
    /\ sessConfig' = [sessConfig EXCEPT !.KubeletIP = ip]
    /\ sessLast' = [cmd |-> "set target", changed |-> sessConfig' # sessConfig,
                    hadClient |-> sessClient # <<>>, err |-> FALSE, got |-> <<>>]
    /\ sessCalls' = sessCalls + 1
    /\ UNCHANGED <<sessClient, sessIsConnected>>
    /\ SessUnchanged

\* set port <n> (set.go lines 69-75)
SetPort(port) ==
    /\ sessCalls < MaxCommands
    /\ sessConfig' = [sessConfig EXCEPT !.KubeletPort = port]
    /\ sessLast' = [cmd |-> "set port", changed |-> sessConfig' # sessConfig,
                    hadClient |-> sessClient # <<>>, err |-> FALSE, got |-> <<>>]
    /\ sessCalls' = sessCalls + 1
    /\ UNCHANGED <<sessClient, sessIsConnected>>
    /\ SessUnchanged

\* set token <value> (set.go lines 77-84)
SetToken(value) ==
    /\ sessCalls < MaxCommands
    /\ sessConfig' = [sessConfig EXCEPT !.Token = value]
    /\ sessLast' = [cmd |-> "set token", changed |-> sessConfig' # sessConfig,
                    hadClient |-> sessClient # <<>>, err |-> FALSE, got |-> <<>>]
    /\ sessCalls' = sessCalls + 1
    /\ UNCHANGED <<sessClient, sessIsConnected>>
    /\ SessUnchanged

\* set token-file <path> (set.go lines 86-93): nothing is set when the file
\* cannot be read
SetTokenFile(file) ==
    /\ sessCalls < MaxCommands
    /\ sessConfig' = IF Read(file).err THEN sessConfig
                     ELSE [sessConfig EXCEPT !.Token = Read(file).token,
                                             !.TokenFile = file.path]
    /\ sessLast' = [cmd |-> "set token-file",
                    changed |-> sessConfig' # sessConfig,
                    hadClient |-> sessClient # <<>>, err |-> Read(file).err,
                    got |-> <<>>]
    /\ sessCalls' = sessCalls + 1
    /\ UNCHANGED <<sessClient, sessIsConnected>>
    /\ SessUnchanged

\* set proxy <url> (set.go lines 107-116): "" and "none" disable the proxy;
\* the command ends with sess.Disconnect()
SetProxy(value) ==
    /\ sessCalls < MaxCommands
    /\ sessConfig' = [sessConfig EXCEPT !.ProxyURL =
                         IF value = "" \/ value = "none" THEN "" ELSE value]
    /\ sessClient' = Disconnect(sessClient)
    /\ sessIsConnected' = FALSE
    /\ sessLast' = [cmd |-> "set proxy", changed |-> sessConfig' # sessConfig,
                    hadClient |-> sessClient # <<>>, err |-> FALSE, got |-> <<>>]
    /\ sessCalls' = sessCalls + 1
    /\ SessUnchanged

\* connect [ip], the version that takes an address (pods.go lines 371-414):
\* `args` is <<>> or <<ip>>.  GetKubeletClient connects on its own ("会自动
\* 连接", line 397), so the session is connected once it has handed out a
\* client.
Connect(args) ==
    /\ sessCalls < MaxCommands
    /\ LET config == IF Len(args) > 0
                     THEN [sessConfig EXCEPT !.KubeletIP = args[1]]
                     ELSE sessConfig
       IN /\ sessConfig' = config
          /\ IF config.KubeletIP = "" \/ config.Token = ""
             THEN /\ sessClient' = sessClient
                  /\ sessIsConnected' = sessIsConnected
                  /\ sessLast' = [cmd |-> "connect", changed |-> config # sessConfig,
                                  hadClient |-> sessClient # <<>>,
                                  err |-> TRUE, got |-> <<>>]
             ELSE LET out == GetKubeletClient(config, sessClient)
                  IN /\ sessClient' = IF out.err THEN sessClient ELSE out.client
                     /\ sessIsConnected' = (sessIsConnected \/ ~out.err)
                     /\ sessLast' = [cmd |-> "connect",
                                     changed |-> config # sessConfig,
                                     hadClient |-> sessClient # <<>>,
                                     err |-> out.err, got |-> out.client]
    /\ sessCalls' = sessCalls + 1
    /\ SessUnchanged

\* connect, the version that uses the current configuration only (pods.go
\* lines 463-501): `args` is never read; after the checks of KubeletIP and
\* Token it calls sess.Connect() and returns its error, and then
\* sess.GetKubeletClient() and returns its error
ConnectConfigured(args, fails) ==
    /\ sessCalls < MaxCommands
    /\ sessConfig' = sessConfig
    /\ IF sessConfig.KubeletIP = "" \/ sessConfig.Token = ""
       THEN /\ sessClient' = sessClient
            /\ sessIsConnected' = sessIsConnected
            /\ sessLast' = [cmd |-> "connect", changed |-> FALSE,
                            hadClient |-> sessClient # <<>>,
                            err |-> TRUE, got |-> <<>>]
       ELSE LET conn == SessionConnect(sessIsConnected, fails)
                out == GetKubeletClient(sessConfig, sessClient)
            IN /\ sessIsConnected' = conn.isConnected
               /\ IF conn.err
                  THEN /\ sessClient' = sessClient
                       /\ sessLast' = [cmd |-> "connect", changed |-> FALSE,
                                       hadClient |-> sessClient # <<>>,
                                       err |-> TRUE, got |-> <<>>]
                  ELSE /\ sessClient' = IF out.err THEN sessClient
                                        ELSE out.client
                       /\ sessLast' = [cmd |-> "connect", changed |-> FALSE,
                                       hadClient |-> sessClient # <<>>,
                                       err |-> out.err, got |-> out.client]
    /\ sessCalls' = sessCalls + 1
    /\ SessUnchanged

NextSession ==
    \/ \E ip \in KubeletIPs : SetTarget(ip)
    \/ \E port \in KubeletPorts : SetPort(port)
    \/ \E value \in Tokens : SetToken(value)
    \/ \E file \in TokenFiles : SetTokenFile(file)
    \/ \E value \in ProxyValues : SetProxy(value)
    \/ \E args \in ConnectArgs : Connect(args)
    \/ \E args \in ConnectArgs, fails \in BOOLEAN : ConnectConfigured(args, fails)

SpecSession == InitSession /\ [][NextSession]_vars

---------------------------------------------------------------------------
(* Properties of the session *)

\* C19: a client that getKubeletClient() hands out is built from the
\* configuration of that moment: after set proxy, set target, set port or
\* connect <ip> changed it, the cached client of the old configuration is
\* not handed out again; with the configuration unchanged the cached client
\* is kept.
C19_ClientFollowsConfig ==
    /\ [](sessLast.got # <<>> => SameEndpoint(sessLast.got[1], sessConfig))
    /\ [][(/\ sessLast'.cmd = "connect"
           /\ sessCalls' = sessCalls + 1
           /\ sessConfig' = sessConfig
           /\ sessClient # <<>>
           /\ SameEndpoint(sessClient[1], sessConfig))
          => sessClient' = sessClient]_vars

C19_Witness ==
    /\ sessLast.cmd = "connect"
    /\ sessLast.hadClient
    /\ sessLast.got # <<>>
    /\ sessLast.got[1].ip = "10.0.0.2"
    /\ sessLast.got[1].port = 10255
    /\ sessCalls = 3

---------------------------------------------------------------------------
(* The PRIV flag of a scan row (buildFlags, IsPrivilegeEquivalent) *)

\* the (resource[/subresource], verb) pairs the privilege-equivalent
\* predicate is documented to recognise
ListedPrivilegePairs ==
    { <<"nodes/proxy", "get">>, <<"nodes/proxy", "create">>,
      <<"pods/exec", "create">>, <<"pods/attach", "create">>,
      <<"serviceaccounts/token", "create">>,
      <<"roles", "bind">>, <<"roles", "escalate">>,
      <<"clusterroles", "bind">>, <<"clusterroles", "escalate">>,
      <<"rolebindings", "create">>, <<"rolebindings", "update">>,
      <<"clusterrolebindings", "create">>, <<"clusterrolebindings", "update">>,
      <<"*", "*">> }

AllowsListedPair(permissions) ==
    \E i \in 1..Len(permissions) :
        /\ permissions[i].Allowed
        /\ <<ResourceKey(permissions[i]), permissions[i].Verb>>
              \in ListedPrivilegePairs

\* C21: the row of a scan task whose pod is not privileged itself carries
\* PRIV exactly when some allowed probe of the task is one of the listed
\* pairs.
C21_PrivIffListedPair ==
    (rpc = "classified" /\ ~taskA.SecurityFlags.Privileged) =>
        (containsFlag(rowA.list, "PRIV")
            <=> AllowsListedPair(taskA.Permissions))

\* a coloured row that carries PRIV for an allowed roles/bind next to an
\* allowed probe that is no listed pair
C21_Witness ==
    /\ rpc = "classified"
    /\ ~taskA.SecurityFlags.Privileged
    /\ ~rowA.noColor
    /\ AllowedOf(taskA.Permissions) = {Probe("roles", "bind", "", ""),
                                       Probe("secrets", "get", "", "")}
    /\ containsFlag(rowA.list, "PRIV")

---------------------------------------------------------------------------
(* Termination of a scan.  The goroutines of Execute are scheduled by the  *)
(* Go runtime, which runs every goroutine that can take a step; a per-pod  *)
(* task is taken to return (ScanPodToken), as the property presupposes.    *)

\* a step of the main goroutine, of a worker or of the closer
ScanProgramStep ==
    \/ \E i \in 1..Len(targetPods) : Acquire(i)
    \/ \E i \in 1..Len(targetPods) : ScanPodToken(i)
    \/ \E i \in 1..Len(targetPods) : Release(i)
    \/ \E i \in 1..Len(targetPods) : WorkerDone(i)
    \/ CloseResults
    \/ Collect
    \/ Finish

SpecLive == Spec /\ WF_vars(ScanProgramStep)

AllWorkersDone == \A i \in 1..Len(wpc) : wpc[i] = "done"

\* C22: a started scan eventually ends, with every worker finished, the
\* results channel closed and every semaphore slot released; the channel
\* is never closed while a worker is still out.
C22_ScanTerminates ==
    /\ [](closed => AllWorkersDone)
    /\ (mainPc = "collect") ~>
           (/\ ScanDone
            /\ AllWorkersDone
            /\ closed
            /\ results = <<>>
            /\ semaphore = 0
            /\ wg = 0)

\* a finished scan of more candidates than the semaphore has slots
C22_Witness ==
    /\ ScanDone
    /\ Len(targetPods) = 2
    /\ semaphoreCap = 1
    /\ Len(allResults) = 2
    /\ AllWorkersDone
    /\ closed
    /\ semaphore = 0

---------------------------------------------------------------------------
(* The end of the exec read loop (readExecOutput lines 651-659) *)

\* Exec is about to return: ReadMessage has failed on an open connection
ExecReadEnds == xmode = "exec" /\ xpc = "open" /\ xpc' = "returned"

\* C23: when the read loop of Exec ends, stdout and stderr stay as they
\* were; a close with code Normal or GoingAway leaves the error as it was;
\* any other read error becomes the error exactly when no error was
\* recorded before and its text does not contain "close", so an error set
\* by a channel-3 status is never replaced; and once the connection is
\* open the call never ends with a Go error.
C23_ReadErrorReportedOnce ==
    /\ [][ExecReadEnds =>
            /\ xresult'.Stdout = xresult.Stdout
            /\ xresult'.Stderr = xresult.Stderr
            /\ (xpeer \in {"normal", "goingaway"} => xresult' = xresult)
            /\ (xresult.Error # <<>> => xresult'.Error = xresult.Error)
            /\ (Contains(ReadErrorText(xpeer), "close")
                  => xresult'.Error = xresult.Error)
            /\ ((/\ xpeer \notin {"normal", "goingaway"}
                 /\ xresult.Error = <<>>
                 /\ ~Contains(ReadErrorText(xpeer), "close"))
                  => xresult'.Error = ReadErrorText(xpeer))]_vars
    /\ [][(xmode = "exec" /\ xpc = "open") => xpc' # "failed"]_vars

\* Exec returned after a Failure status and a connection reset: the
\* status' error is still the result's error
C23_Witness ==
    /\ xmode = "exec"
    /\ xpc = "returned"
    /\ xpeer = "reset"
    /\ xframes = << <<StreamError>> \o StatusFailureMessage >>
    /\ xresult.Error # <<>>
    /\ xresult.Error # ReadErrorText("reset")

---------------------------------------------------------------------------
(* The typing of projected volumes by extractSensitiveVolumes *)

\* the volume is none of the direct shapes and has projected sources
IsProjected(v) == v.Secret = <<>> /\ v.HostPath = <<>> /\ v.Projected # <<>>

HasTokenSource(v) ==
    \E i \in 1..Len(v.Projected[1]) : v.Projected[1][i].ServiceAccountToken

HasSecretSource(v) ==
    \E i \in 1..Len(v.Projected[1]) : v.Projected[1][i].Secret # <<>>

\* the types under which the result lists the volume named `name`
TypesOf(out, name) == {out[k].Type : k \in {j \in 1..Len(out) : out[j].Name = name}}

\* C24 (as claimed): a projected volume with a serviceAccountToken source
\* is listed as projected-sa-token wherever that source stands among the
\* sources; one with a secret source and no serviceAccountToken source as
\* projected-secret; a volume that is neither a secret, a hostPath nor
\* such a projected volume is not listed.
C24_ProjectedTypedByAnySource ==
    PureDone("extractSensitiveVolumes") =>
        \A i \in 1..Len(pin.volumes) :
            LET v == pin.volumes[i] IN
            /\ (IsProjected(v) /\ HasTokenSource(v))
                  => TypesOf(pout, v.Name) = {"projected-sa-token"}
            /\ (IsProjected(v) /\ ~HasTokenSource(v) /\ HasSecretSource(v))
                  => TypesOf(pout, v.Name) = {"projected-secret"}
            /\ (/\ v.Secret = <<>>
                /\ v.HostPath = <<>>
                /\ (v.Projected = <<>>
                      \/ (~HasTokenSource(v) /\ ~HasSecretSource(v))))
                  => TypesOf(pout, v.Name) = {}

---------------------------------------------------------------------------
(* The rule-based assessment against the README and the fast classifier *)

\* C25 (as claimed): a list whose allowed permissions are exactly
\* nodes/proxy:get, nodes:list and pods:list is assessed HIGH by
\* AssessRiskFromPermissions.
C25_WalkthroughIsHigh ==
    (/\ PureDone("AssessRiskFromPermissions")
     /\ AllowedOf(pin) = {Probe("nodes", "get", "", "proxy"),
                          Probe("nodes", "list", "", ""),
                          Probe("pods", "list", "", "")})
    => pout.assessment.Level = RiskHigh

\* C26 (as claimed): on every permission list the level and the
\* cluster-admin verdict of AssessRiskFromPermissions are those of
\* CalculateRiskLevel and IsClusterAdmin.
C26_ClassifiersAgree ==
    PureDone("AssessRiskFromPermissions") =>
        /\ pout.assessment.Level = pout.level
        /\ pout.assessment.IsClusterAdmin = pout.admin

---------------------------------------------------------------------------
(* The summary line of a scan (Execute lines 187-219) *)

\* Execute lines 188-202: the counters of the summary line
SummaryCounts(rs) ==
    [adminCount |->
        Cardinality({k \in 1..Len(rs) : rs[k].IsClusterAdmin}),
     criticalCount |->
        Cardinality({k \in 1..Len(rs) :
            ~rs[k].IsClusterAdmin /\ rs[k].RiskLevel = RiskCritical}),
     highCount |->
        Cardinality({k \in 1..Len(rs) :
            ~rs[k].IsClusterAdmin /\ rs[k].RiskLevel = RiskHigh})]

\* C27 (as claimed): in the summary of a finished scan the ADMIN, CRITICAL
\* and HIGH counts together never exceed the number of SAs reported saved.
C27_CountsWithinSaved ==
    ScanDone =>
        SummaryCounts(allResults).adminCount
            + SummaryCounts(allResults).criticalCount
            + SummaryCounts(allResults).highCount <= savedCount

\* C28 (as claimed): the number a finished scan reports as saved is the
\* number of records of the scan in the repository, and it is 0 when the
\* batch failed and was rolled back.
C28_SavedCountIsStored ==
    ScanDone =>
        /\ savedCount = Cardinality(DOMAIN repo)
        /\ (saveErr => savedCount = 0)

---------------------------------------------------------------------------
(* A scan task whose access reviews all fail *)

\* every review request of the task failed
EveryReviewFails(resps) ==
    \A i \in 1..Len(resps) : CheckPermission(resps[i]).err

\* the result of a task whose token was read and whose every probe was
\* answered "denied", as a record of the SA map
DeniedRecords(pod, exec) ==
    LET r0 == NewResult(pod)
        info == Parse(TrimSpace(exec.Stdout)).info
        denied == [r0 EXCEPT
                      !.Container = pod.Containers[1],
                      !.Token = TrimSpace(exec.Stdout),
                      !.TokenInfo = <<info>>,
                      !.ServiceAccount = info.ServiceAccount,
                      !.Permissions =
                          [i \in 1..Len(PermissionsToCheck) |->
                              PermissionCheck(PermissionsToCheck[i], FALSE)]]
    IN IF info.ServiceAccount = "" THEN EmptyMap
       ELSE (SAKey(info.Namespace, info.ServiceAccount) :> NewRecord(denied))

\* C29: a task that read and parsed its token, got its client and whose
\* every access review failed ends without error, with riskLevel NONE, isClusterAdmin
\* false and no allowed permission, and the records made of it are those
\* of an SA that was denied every probe.
C29_FailedReviewsAreDenials ==
    (/\ PureDone("scanPodToken")
     /\ Len(pin.pod.Containers) > 0
     /\ ~pin.exec.dialErr
     /\ pin.exec.Error = ""
     /\ ~Parse(TrimSpace(pin.exec.Stdout)).err
     /\ ~pin.clientErr
     /\ EveryReviewFails(pin.resps))
    => /\ pout.result.Error = ""
       /\ pout.result.RiskLevel = RiskNone
       /\ ~pout.result.IsClusterAdmin
       /\ AllowedOf(pout.result.Permissions) = {}
       /\ Len(pout.result.Permissions) = Len(PermissionsToCheck)
       /\ pout.saMap = DeniedRecords(pin.pod, pin.exec)
       /\ \A key \in DOMAIN pout.saMap :
             /\ pout.saMap[key].RiskLevel = RiskNone
             /\ ~pout.saMap[key].IsClusterAdmin
             /\ JsonItems(pout.saMap[key].Permissions) = <<>>

\* the API server was unreachable for the token of default/shared and the
\* SA was recorded
C29_Witness ==
    /\ PureDone("scanPodToken")
    /\ pin.resps = Unreachable
    /\ ~pin.clientErr
    /\ pout.result.ServiceAccount = "shared"
    /\ pout.result.Error = ""
    /\ DOMAIN pout.saMap = {"default/shared"}
    /\ pout.saMap["default/shared"].RiskLevel = RiskNone

---------------------------------------------------------------------------
(* SpecAllPods: exec --all-pods (ExecCmd.Execute and execAllPods, use.go).  *)

\* `concurrency := 10` (Execute)
DefaultExecConcurrency == 10

\* Execute, case "--concurrency": a value that is not above 0 is ignored
ParseConcurrency(n) == IF n > 0 THEN n ELSE DefaultExecConcurrency

\* the arguments of one call; `flag` is the value given to --concurrency
AllPodsFilters ==
    {[namespace |-> "", filterPods |-> <<>>, filterNs |-> <<>>],
     [namespace |-> "default", filterPods |-> <<"a">>, filterNs |-> <<"kube">>],
     [namespace |-> "kube-system", filterPods |-> <<>>, filterNs |-> <<>>],
     [namespace |-> "", filterPods |-> <<>>,
      filterNs |-> <<"kube-system", "fault">>]}

AllPodsArgs ==
    {[namespace |-> f.namespace, filterPods |-> f.filterPods,
      filterNs |-> f.filterNs, concurrency |-> ParseConcurrency(flag)] :
        f \in AllPodsFilters, flag \in 0..MaxConcurrency}

\* the pairs <<name, part>> of the names used here where `part` is a
\* proper substring of `name`
NameParts ==
    {<<"default", "fault">>, <<"kube-system", "kube">>,
     <<"kube-system", "system">>}

\* matchFilterList: s == f || strings.Contains(s, f)
matchFilterList(str, filters) ==
    \E k \in 1..Len(filters) :
        str = filters[k] \/ <<str, filters[k]>> \in NameParts

\* the filter loop of execAllPods (lines 918-937)
AllPodsTargets(cached, args) ==
    SelectSeq(cached, LAMBDA pod :
        /\ (args.namespace = "" \/ pod.Namespace = args.namespace)
        /\ ~matchFilterList(pod.Namespace, args.filterNs)
        /\ ~matchFilterList(pod.PodName, args.filterPods)
        /\ pod.Status = "Running")

\* what kubelet.Exec can answer: a Go error, an exec error, or output
ExecAnswers ==
    {ExecOutcome(TRUE, "", ""),
     ExecOutcome(FALSE, "container not found", ""),
     ExecOutcome(FALSE, "", "out")}

\* the item a worker makes of the answer (lines 988-1003)
execResultItem(pod, answer) ==
    [Namespace |-> pod.Namespace,
     Pod |-> pod.PodName,
     Container |-> IF Len(pod.Containers) > 0 THEN pod.Containers[1] ELSE "",
     Stdout |-> IF ~answer.dialErr /\ answer.Error = "" THEN answer.Stdout
                ELSE "",
     Error |-> IF answer.dialErr THEN "exec error" ELSE answer.Error,
     Success |-> ~answer.dialErr /\ answer.Error = ""]

\* the counting loop after the join (lines 1013-1022)
CountResults(items) ==
    [successCount |-> Cardinality({k \in 1..Len(items) : items[k].Success}),
     failCount |-> Cardinality({k \in 1..Len(items) : ~items[k].Success})]

InitAllPods ==
    /\ RiskOff
    /\ ScanOff
    /\ ExecOff
    /\ PureOff
    /\ DbOff
    /\ SessOff
    /\ apArgs \in AllPodsArgs
    /\ apCache \in PodLists
    /\ apTargets = <<>>
    /\ apPc = "start"
    /\ apWpc = <<>>
    /\ apSemaphore = 0
    /\ apWg = 0
    /\ apResults = <<>>
    /\ apCounts = NoCounts

AllPodsUnchanged ==
    UNCHANGED <<riskVars, scanVars, execVars, pureVars, dbVars, sessVars>>

\* execAllPods lines 908-941: no cached pod or no target ends the call
\* with an error; else the loop over the targets begins
AllPodsStart ==
    /\ apPc = "start"
    /\ apTargets' = IF Len(apCache) = 0 THEN <<>>
                    ELSE AllPodsTargets(apCache, apArgs)
    /\ IF Len(apCache) = 0 \/ Len(AllPodsTargets(apCache, apArgs)) = 0
       THEN /\ apPc' = "failed"
            /\ apWpc' = apWpc
       ELSE /\ apPc' = "spawn"
            /\ apWpc' = [i \in 1..Len(AllPodsTargets(apCache, apArgs)) |-> "idle"]
    /\ UNCHANGED <<apArgs, apCache, apSemaphore, apWg, apResults, apCounts>>
    /\ AllPodsUnchanged

\* a semaphore that admits one call more than its capacity
AllPodsSemaphoreHasRoomOffByOne == apSemaphore <= apArgs.concurrency

\* `semaphore <- struct{}{}` in the loop of the main goroutine can proceed
AllPodsSemaphoreHasRoom == apSemaphore < apArgs.concurrency

\* the target the loop is at
NextTarget == Cardinality({i \in 1..Len(apWpc) : apWpc[i] # "idle"}) + 1

\* the main goroutine or a worker is inside the loop
AllPodsRunning == apPc \in {"spawn", "send"}

\* line 963: wg.Add(1) for the next target
AllPodsAdd ==
    /\ apPc = "spawn"
    /\ NextTarget <= Len(apTargets)
    /\ apWg' = apWg + 1
    /\ apPc' = "send"
    /\ UNCHANGED <<apArgs, apCache, apTargets, apWpc, apSemaphore, apResults,
                   apCounts>>
    /\ AllPodsUnchanged

\* lines 964-966: the semaphore send goes through and the goroutine of
\* the target starts
AllPodsSpawn ==
    /\ apPc = "send"
    /\ AllPodsSemaphoreHasRoom
    /\ apSemaphore' = apSemaphore + 1
    /\ apWpc' = [apWpc EXCEPT ![NextTarget] = "exec"]
    /\ apPc' = "spawn"
    /\ UNCHANGED <<apArgs, apCache, apTargets, apWg, apResults, apCounts>>
    /\ AllPodsUnchanged

\* worker lines 970-1007: kubelet.Exec returns and the item is appended
\* under the mutex
AllPodsExecReturns(i) ==
    /\ AllPodsRunning
    /\ apWpc[i] = "exec"
    /\ \E answer \in ExecAnswers :
          apResults' = Append(apResults, execResultItem(apTargets[i], answer))
    /\ apWpc' = [apWpc EXCEPT ![i] = "return"]
    /\ UNCHANGED <<apArgs, apCache, apTargets, apPc, apSemaphore, apWg,
                   apCounts>>
    /\ AllPodsUnchanged

\* the worker's deferred calls run last registered first; line 968:
\* `<-semaphore` frees the slot
AllPodsRelease(i) ==
    /\ AllPodsRunning
    /\ apWpc[i] = "return"
    /\ apSemaphore' = apSemaphore - 1
    /\ apWpc' = [apWpc EXCEPT ![i] = "released"]
    /\ UNCHANGED <<apArgs, apCache, apTargets, apPc, apWg, apResults,
                   apCounts>>
    /\ AllPodsUnchanged

\* line 967: the deferred wg.Done()
AllPodsWorkerExits(i) ==
    /\ AllPodsRunning
    /\ apWpc[i] = "released"
    /\ apWg' = apWg - 1
    /\ apWpc' = [apWpc EXCEPT ![i] = "done"]
    /\ UNCHANGED <<apArgs, apCache, apTargets, apPc, apSemaphore, apResults,
                   apCounts>>
    /\ AllPodsUnchanged

\* lines 1011-1022: the loop is over, wg.Wait() returns, the results are
\* counted
AllPodsJoin ==
    /\ apPc = "spawn"
    /\ NextTarget > Len(apTargets)
    /\ apWg = 0
    /\ apCounts' = CountResults(apResults)
    /\ apPc' = "done"
    /\ UNCHANGED <<apArgs, apCache, apTargets, apWpc, apSemaphore, apWg,
                   apResults>>
    /\ AllPodsUnchanged

NextAllPods ==
    \/ AllPodsStart
    \/ AllPodsAdd
    \/ AllPodsSpawn
    \/ \E i \in 1..Len(apTargets) : AllPodsExecReturns(i)
    \/ \E i \in 1..Len(apTargets) : AllPodsRelease(i)
    \/ \E i \in 1..Len(apTargets) : AllPodsWorkerExits(i)
    \/ AllPodsJoin

\* the Go runtime runs every goroutine that can take a step, and every
\* Exec call is taken to return
SpecAllPods == InitAllPods /\ [][NextAllPods]_vars /\ WF_vars(NextAllPods)

---------------------------------------------------------------------------
(* Properties of exec --all-pods *)

\* the Exec calls in progress
RunningExecs == {i \in 1..Len(apWpc) : apWpc[i] = "exec"}

\* the items recorded for the target at position i
ItemsOf(i) ==
    {k \in 1..Len(apResults) :
        /\ apResults[k].Pod = apTargets[i].PodName
        /\ apResults[k].Namespace = apTargets[i].Namespace}

\* C30: at no time are more than `concurrency` Exec calls in progress; a
\* started run ends; and at its end there is exactly one item per target,
\* every target is a Running pod of the cache, and the success and
\* failure counts add up to the number of targets.
C30_AllPodsBoundedAndComplete ==
    /\ [](Cardinality(RunningExecs) <= apArgs.concurrency)
    /\ [](apPc = "done" =>
            /\ Len(apResults) = Len(apTargets)
            /\ \A i \in 1..Len(apTargets) :
                  /\ Cardinality(ItemsOf(i)) = 1
                  /\ apTargets[i].Status = "Running"
            /\ apCounts.successCount + apCounts.failCount = Len(apTargets)
            /\ apSemaphore = 0)
    /\ (apPc = "spawn") ~> (apPc = "done")

\* a finished run over more targets than the semaphore has slots, one
\* call succeeded and one failed
C30_Witness ==
    /\ apPc = "done"
    /\ Len(apTargets) = 2
    /\ apArgs.concurrency = 1
    /\ apCounts.successCount = 1
    /\ apCounts.failCount = 1

====
